---- MODULE Spec2Model ----
(***************************************************************************)
(* Export pipeline of the video editor (ExportPanel: handleExport,         *)
(* processAndMergeSegments, handleCancel) together with the transcode      *)
(* helper (loadFFmpeg, transcodeVideo) and the download helper.            *)
(*                                                                         *)
(* Time is counted in whole frame ticks.  Progress values are exact        *)
(* fractions <<n, d>> (the code computes them in floating point).          *)
(* One action is one macrotask of the browser's event loop: a handler      *)
(* together with the promise continuations it makes runnable.              *)
(***************************************************************************)
EXTENDS Integers, Sequences, FiniteSets

\* ------------------------------------------------------------------ bounds

\* Export runs that one behaviour may start.
MaxRuns == 2

\* Largest advance of video.currentTime between two animation frames.
MaxAdvance == 2

\* Frame ticks a run may spend waiting for loadedmetadata, seeked and play
\* (counted by the timed specification).
MaxDelay == 3

Runs == 1..MaxRuns

\* ------------------------------------------------------- exact arithmetic

RECURSIVE Gcd(_, _)
Gcd(a, b) == IF b = 0 THEN a ELSE Gcd(b, a % b)

\* The fraction n/d (n >= 0, d > 0) in lowest terms.
Frac(n, d) == LET g == Gcd(n, d) IN <<n \div g, d \div g>>

Num(i) == <<i, 1>>

FracLeq(a, b) == a[1] * b[2] <= b[1] * a[2]

FracMin(a, b) == IF FracLeq(a, b) THEN a ELSE b

\* Math.round of a non-negative fraction: halves round up.
MathRound(f) == (2 * f[1] + f[2]) \div (2 * f[2])

Min(a, b) == IF a <= b THEN a ELSE b

Max(a, b) == IF a >= b THEN a ELSE b

\* ------------------------------------------------------------ the store

\* The clips of the store: media length in ticks and audio settings.
ClipSet ==
  [ c \in {"a", "b"} |->
      IF c = "a" THEN [duration |-> 2, volume |-> 100, muted |-> FALSE]
                 ELSE [duration |-> 3, volume |-> 50, muted |-> TRUE] ]

Block(id, clipId, order, startTime, endTime) ==
  [id |-> id, clipId |-> clipId, order |-> order, startTime |-> startTime,
   endTime |-> endTime, duration |-> endTime - startTime]

\* Timelines the editor can hold when the export panel is used: empty, one
\* block, two blocks (the second trimmed at its start), and two blocks whose
\* order values start at 1 (the block of order 0 was removed).  In the last
\* one the O key has set the second block's endTime to the timeline position
\* 3, past the end of its 2-tick media: the capture loop ends it on
\* video.ended.
TimelineChoices ==
  { <<>>,
    << Block("x", "a", 0, 0, 2) >>,
    << Block("x", "a", 0, 0, 1), Block("y", "b", 1, 1, 3) >>,
    << Block("y", "b", 1, 0, 2), Block("x", "a", 2, 0, 3) >> }

\* [...blocks].sort((a, b) => a.order - b.order): a stable sort.
RECURSIVE SortByOrder(_)
SortByOrder(s) ==
  IF Len(s) <= 1 THEN s
  ELSE LET rest == SortByOrder(Tail(s))
           h == Head(s)
           k == Cardinality({i \in 1..Len(rest) : rest[i].order < h.order})
       IN SubSeq(rest, 1, k) \o <<h>> \o SubSeq(rest, k + 1, Len(rest))

RECURSIVE SumDuration(_)
SumDuration(s) == IF s = <<>> THEN 0 ELSE Head(s).duration + SumDuration(Tail(s))

Formats == {"webm", "mp4", "mov"}

\* ------------------------------------------------------------- the state

VARIABLES
  timelineBlocks,   \* store: the blocks of the timeline
  clips,            \* store: the clips, by id
  fsSupported,      \* 'showSaveFilePicker' in window
  format,           \* settings.format of the export panel
  isExporting,      \* ExportPanel state
  exportProgress,   \* ExportPanel state, a fraction
  picker,           \* the save-location picker: "closed" or "open"
  isLoading,        \* ffmpegHelper module state
  isLoaded,         \* ffmpegHelper module state
  ffmpegInstance,   \* ffmpegHelper module state: the FFmpeg object made last, by number
  runs,             \* the export runs started so far, by number
  nruns,            \* how many runs were started
  toast,            \* the notice shown last (react-hot-toast)
  playback,         \* store: the playback state
  player,           \* VideoPlayer: its state, its refs and its video element
  edits             \* how many editing operations were made

vars == <<timelineBlocks, clips, fsSupported, format, isExporting, exportProgress,
          picker, isLoading, isLoaded, ffmpegInstance, runs, nruns, toast, playback, player, edits>>

NoProgress == <<>>

\* The playback state the store starts with; activeBlockId is not set.
InitialPlayback ==
  [isPlaying |-> FALSE, currentTime |-> 0, totalDuration |-> 0, activeBlockId |-> "none"]

\* The preview player before a block was loaded into its video element.
IdlePlayer ==
  [ currentBlockIndex |-> 0,   \* useState(0)
    isTransitioning |-> FALSE, \* useState(false)
    shouldAutoPlay |-> FALSE,  \* shouldAutoPlayRef.current
    volume |-> 100,            \* useState(100): the master volume
    src |-> "none",            \* the clip videoRef.current.src points to
    position |-> 0,            \* videoRef.current.currentTime
    paused |-> TRUE,           \* videoRef.current.paused
    elVolume |-> <<1, 1>>,     \* videoRef.current.volume, a fraction
    muted |-> FALSE,           \* videoRef.current.muted
    listener |-> <<>>,         \* the canplay listener, if one is registered
    canplayDue |-> FALSE,      \* the element loads its src: canplay will fire
    playPending |-> FALSE,     \* the promise of play() in handleCanPlay is pending
    timers |-> <<>>,           \* the callbacks handleSeek gave to setTimeout
    tick |-> <<>>,             \* what the timeupdate of the last step observed
    renderLoop |-> FALSE ]     \* the effects keep setting state: no render settles

\* A run that was not started yet.
IdleRun ==
  [ hpc |-> "idle",            \* where handleExport is suspended
    spc |-> "none",            \* where processAndMergeSegments is suspended
    format |-> "webm",         \* settings.format the run was started with
    blocks |-> <<>>,           \* sortedBlocks
    allClips |-> ClipSet,      \* clips, as handed to the run
    currentBlockIndex |-> 0,
    processedDuration |-> 0,
    currentTime |-> 0,         \* video.currentTime
    src |-> "none",            \* the clip video.src points to
    volume |-> <<1, 1>>,       \* video.volume, a fraction
    muted |-> FALSE,           \* video.muted
    recorded |-> 0,            \* ticks passed while the recorder was recording
    delay |-> 0,               \* ticks passed waiting for the video element
    recorder |-> "none",       \* MediaRecorder: none, recording, inactive
    promise |-> "none",        \* the promise of processAndMergeSegments
    ffmpeg |-> <<>>,           \* the FFmpeg object loadFFmpeg resolved with
    webmBlob |-> "none",       \* type of the blob the recorder's chunks are put in
    emitted |-> <<>>,          \* sizes of the chunks the recorder emitted, in order
    chunks |-> <<>>,           \* the chunks array: numbers of the chunks kept
    blobParts |-> <<>>,        \* the chunks the blob was made of
    finalBlob |-> "none",      \* type of the blob given to downloadBlob
    audioSource |-> FALSE,     \* audioSource !== null
    binds |-> 0,               \* calls of createMediaElementSource
    starts |-> 0,              \* calls of recorder.start
    stops |-> 0,               \* calls of recorder.stop
    firstProgress |-> NoProgress, \* the first value given to onProgress
    lastProgress |-> NoProgress,  \* the latest value given to onProgress
    cancelled |-> FALSE,       \* handleCancel ran while the run was in flight
    mediaFailed |-> FALSE,     \* the video element reported an error
    recorderFailed |-> FALSE,  \* recorder.onerror ran
    transcodeFailed |-> FALSE, \* transcodeVideo rejected
    downloaded |-> FALSE,      \* downloadBlob was called with the run's blob
    success |-> FALSE ]        \* progress 100 and the success notice were given

Init ==
  /\ timelineBlocks \in TimelineChoices
  /\ clips = ClipSet
  /\ fsSupported \in BOOLEAN
  /\ format = "webm"
  /\ isExporting = FALSE
  /\ exportProgress = Num(0)
  /\ picker = "closed"
  /\ isLoading = FALSE
  /\ isLoaded = FALSE
  /\ ffmpegInstance = <<>>
  /\ runs = [r \in Runs |-> IdleRun]
  /\ nruns = 0
  /\ toast = "none"
  /\ playback = [InitialPlayback EXCEPT !.totalDuration = SumDuration(timelineBlocks)]
  /\ player = IdlePlayer
  /\ edits = 0

\* What a handler of run r reads and writes: the run and the shared state.
Ctx(r) ==
  [ run |-> runs[r], isExporting |-> isExporting, exportProgress |-> exportProgress,
    isLoading |-> isLoading, isLoaded |-> isLoaded,
    ffmpegInstance |-> ffmpegInstance, toast |-> toast ]

Commit(r, c) ==
  /\ runs' = [runs EXCEPT ![r] = c.run]
  /\ isExporting' = c.isExporting
  /\ exportProgress' = c.exportProgress
  /\ isLoading' = c.isLoading
  /\ isLoaded' = c.isLoaded
  /\ ffmpegInstance' = c.ffmpegInstance
  /\ toast' = c.toast

\* -------------------------------------------------- handleExport, its parts

\* Faulty variant: the empty-timeline guard of handleExport is gone.
HasClipsAlways == TRUE

\* hasClips of the panel.
HasClips == Len(timelineBlocks) > 0

\* The onProgress callback handleExport gives to processAndMergeSegments:
\* setExportProgress(progress) for webm, Math.round(progress * 0.6) otherwise.
OnProgress(c, p) ==
  LET shown == IF c.run.format = "webm" THEN p
               ELSE Num(MathRound(Frac(p[1] * 6, p[2] * 10)))
  IN [c EXCEPT !.exportProgress = shown,
               !.run.firstProgress = IF @ = NoProgress THEN p ELSE @,
               !.run.lastProgress = p]

\* Faulty variant: on a failure the blob at hand is downloaded all the same.
HandleExportCatchFallback(c) ==
  [c EXCEPT !.run.hpc = "download", !.run.downloaded = TRUE]

\* The catch block of handleExport.
HandleExportCatch(c) ==
  [c EXCEPT !.isExporting = FALSE, !.exportProgress = Num(0), !.run.hpc = "failed",
            !.toast = "Export failed"]

\* await downloadBlob(finalBlob, ...): the call, up to its first await.
CallDownloadBlob(c) ==
  [c EXCEPT !.run.hpc = "download", !.run.downloaded = TRUE]

\* new FFmpeg(): an object that was not there before; the objects are numbered.
NewFFmpeg(last) == IF last = <<>> THEN <<1>> ELSE <<last[1] + 1>>

\* Faulty variant: a call does not look at isLoading and loads on its own.
LoadFFmpegNoWait(c) ==
  IF c.ffmpegInstance # <<>> /\ c.isLoaded
  THEN [c EXCEPT !.run.ffmpeg = c.ffmpegInstance, !.run.hpc = "tc_exec"]
  ELSE [c EXCEPT !.isLoading = TRUE, !.ffmpegInstance = NewFFmpeg(c.ffmpegInstance),
                 !.run.hpc = "tc_loading"]

\* loadFFmpeg, as transcodeVideo calls it, up to its first await.
LoadFFmpeg(c) ==
  IF c.ffmpegInstance # <<>> /\ c.isLoaded
  THEN [c EXCEPT !.run.ffmpeg = c.ffmpegInstance, !.run.hpc = "tc_exec"]
  ELSE IF c.isLoading THEN [c EXCEPT !.run.hpc = "tc_poll"]
  ELSE [c EXCEPT !.isLoading = TRUE, !.ffmpegInstance = NewFFmpeg(c.ffmpegInstance),
                 !.run.hpc = "tc_loading"]

\* handleExport once processAndMergeSegments has resolved with the webm blob.
ContinueAfterCapture(c) ==
  IF c.run.format = "webm"
  THEN CallDownloadBlob([c EXCEPT !.run.finalBlob = c.run.webmBlob])
  ELSE LoadFFmpeg([c EXCEPT !.exportProgress = Num(65)])

\* resolve(blob) of the promise of processAndMergeSegments; a settled promise
\* stays as it is.
ResolveCapture(c) ==
  IF c.run.promise = "pending"
  THEN ContinueAfterCapture([c EXCEPT !.run.promise = "resolved"])
  ELSE c

\* reject(error) of the promise of processAndMergeSegments.
RejectCapture(c) ==
  IF c.run.promise = "pending"
  THEN HandleExportCatch([c EXCEPT !.run.promise = "rejected"])
  ELSE c

\* ------------------------------------------- processAndMergeSegments, its parts

\* Faulty variant: the recorder is stopped as soon as one block is done.
RECURSIVE ProcessNextBlockStopsEarly(_)
ProcessNextBlockStopsEarly(c) ==
  LET run == c.run IN
  IF run.currentBlockIndex >= Min(1, Len(run.blocks))
  THEN [c EXCEPT !.run.spc = IF run.recorder = "recording" THEN "stopping" ELSE "ended",
                 !.run.stops = @ + 1]
  ELSE IF run.blocks[run.currentBlockIndex + 1].clipId \notin DOMAIN run.allClips
  THEN ProcessNextBlockStopsEarly([c EXCEPT !.run.currentBlockIndex = @ + 1])
  ELSE [c EXCEPT !.run.spc = "load", !.run.currentTime = 0,
                 !.run.src = run.blocks[run.currentBlockIndex + 1].clipId]

\* Faulty variant: past the last block the recorder is not stopped.
RECURSIVE ProcessNextBlockNoStop(_)
ProcessNextBlockNoStop(c) ==
  LET run == c.run IN
  IF run.currentBlockIndex >= Len(run.blocks)
  THEN [c EXCEPT !.run.spc = "ended"]
  ELSE IF run.blocks[run.currentBlockIndex + 1].clipId \notin DOMAIN run.allClips
  THEN ProcessNextBlockNoStop([c EXCEPT !.run.currentBlockIndex = @ + 1])
  ELSE [c EXCEPT !.run.spc = "load", !.run.currentTime = 0,
                 !.run.src = run.blocks[run.currentBlockIndex + 1].clipId]

\* processNextBlock, up to its first await.
RECURSIVE ProcessNextBlock(_)
ProcessNextBlock(c) ==
  LET run == c.run IN
  IF run.currentBlockIndex >= Len(run.blocks)
  THEN \* recorder.stop(): the stop event follows; an inactive recorder gives none
       [c EXCEPT !.run.spc = IF run.recorder = "recording" THEN "stopping" ELSE "ended",
                 !.run.stops = @ + 1]
  ELSE IF run.blocks[run.currentBlockIndex + 1].clipId \notin DOMAIN run.allClips
  THEN ProcessNextBlock([c EXCEPT !.run.currentBlockIndex = @ + 1])
  ELSE \* video.src = ...: the element starts over at position 0
       [c EXCEPT !.run.spc = "load", !.run.currentTime = 0,
                 !.run.src = run.blocks[run.currentBlockIndex + 1].clipId]

\* The executor of the promise up to the first await: elements, first clip.
StartCapture(c) ==
  IF \/ Len(c.run.blocks) = 0
     \/ c.run.blocks[1].clipId \notin DOMAIN c.run.allClips
  THEN RejectCapture(c)
  ELSE [c EXCEPT !.run.spc = "meta0", !.run.src = c.run.blocks[1].clipId]

\* Faulty variant: recorder.start is left out before the first block is processed.
OnFirstMetadataNoStart(c) ==
  ProcessNextBlock(OnProgress(
    [c EXCEPT !.run.processedDuration = 0, !.run.currentBlockIndex = 0], Num(5)))

\* After the first loadedmetadata: surface size, audio context, recorder,
\* recorder.start(100), onProgress(5), processNextBlock().
OnFirstMetadata(c) ==
  LET c1 == [c EXCEPT !.run.recorder = "recording", !.run.starts = @ + 1,
                      !.run.processedDuration = 0, !.run.currentBlockIndex = 0]
  IN ProcessNextBlock(OnProgress(c1, Num(5)))

\* Faulty variant: the audio source is created for every block.
OnLoadedMetadataRebind(c) ==
  LET block == c.run.blocks[c.run.currentBlockIndex + 1]
      clip == c.run.allClips[block.clipId]
  IN [c EXCEPT !.run.volume = Frac(clip.volume, 100), !.run.muted = clip.muted,
               !.run.audioSource = TRUE, !.run.binds = @ + 1,
               !.run.currentTime = Min(block.startTime, clip.duration),
               !.run.spc = "seek"]

\* Faulty variant: the audio settings are read from the store as it is when
\* the block is loaded, not from the clips the run was given.
OnLoadedMetadataLive(c) ==
  LET block == c.run.blocks[c.run.currentBlockIndex + 1]
      clip == c.run.allClips[block.clipId]
      live == IF block.clipId \in DOMAIN clips THEN clips[block.clipId] ELSE clip
  IN [c EXCEPT !.run.volume = Frac(live.volume, 100), !.run.muted = live.muted,
               !.run.audioSource = TRUE,
               !.run.binds = IF c.run.audioSource THEN @ ELSE @ + 1,
               !.run.currentTime = Min(block.startTime, clip.duration),
               !.run.spc = "seek"]

\* processNextBlock after loadedmetadata: audio settings, the audio source
\* (created once), video.currentTime = block.startTime (the element keeps the
\* position within its media).
OnLoadedMetadata(c) ==
  LET block == c.run.blocks[c.run.currentBlockIndex + 1]
      clip == c.run.allClips[block.clipId]
  IN [c EXCEPT !.run.volume = Frac(clip.volume, 100), !.run.muted = clip.muted,
               !.run.audioSource = TRUE,
               !.run.binds = IF c.run.audioSource THEN @ ELSE @ + 1,
               !.run.currentTime = Min(block.startTime, clip.duration),
               !.run.spc = "seek"]

\* processNextBlock after seeked: video.play().  On an element whose
\* playback has ended (the position is the end of the media) play() first
\* seeks back to the start.
OnSeeked(c) ==
  LET clip == c.run.allClips[c.run.blocks[c.run.currentBlockIndex + 1].clipId]
  IN [c EXCEPT !.run.spc = "play",
               !.run.currentTime = IF @ >= clip.duration THEN 0 ELSE @]

\* video.play().then(...): the first requestAnimationFrame(captureLoop).
OnPlayStarted(c) == [c EXCEPT !.run.spc = "loop"]

\* Faulty variant: the share of the processed duration is scaled to 100 and
\* not capped.
CaptureLoopScale100(c, d) ==
  LET run == c.run
      block == run.blocks[run.currentBlockIndex + 1]
      clip == run.allClips[block.clipId]
      ended == run.currentTime >= clip.duration
      processed == run.processedDuration + (block.endTime - block.startTime)
      progress == Frac(processed * 100, SumDuration(run.blocks))
  IN IF run.currentTime >= block.endTime \/ ended
     THEN ProcessNextBlock(
            [OnProgress([c EXCEPT !.run.processedDuration = processed], progress)
               EXCEPT !.run.currentBlockIndex = @ + 1])
     ELSE [c EXCEPT !.run.currentTime = Min(@ + d, clip.duration)]

\* captureLoop; d is what video.currentTime gains until the next frame.
CaptureLoop(c, d) ==
  LET run == c.run
      block == run.blocks[run.currentBlockIndex + 1]
      clip == run.allClips[block.clipId]
      ended == run.currentTime >= clip.duration
      processed == run.processedDuration + (block.endTime - block.startTime)
      progress == FracMin(Num(95), Frac(processed * 95, SumDuration(run.blocks)))
  IN IF run.currentTime >= block.endTime \/ ended
     THEN ProcessNextBlock(
            [OnProgress([c EXCEPT !.run.processedDuration = processed], progress)
               EXCEPT !.run.currentBlockIndex = @ + 1])
     ELSE [c EXCEPT !.run.currentTime = Min(@ + d, clip.duration)]

\* Faulty variant: the handler keeps the latest chunk only.
OnDataAvailableKeepsLast(c, size) ==
  LET n == Len(c.run.emitted) + 1
  IN [c EXCEPT !.run.emitted = Append(@, size),
               !.run.chunks = IF size > 0 THEN <<n>> ELSE @]

\* The recorder emits its next chunk, of that size, and recorder.ondataavailable
\* runs.
OnDataAvailable(c, size) ==
  LET n == Len(c.run.emitted) + 1
  IN [c EXCEPT !.run.emitted = Append(@, size),
               !.run.chunks = IF size > 0 THEN Append(@, n) ELSE @]

\* recorder.onstop: cleanup, new Blob(chunks), resolve(blob).
RecorderOnStop(c) ==
  ResolveCapture([c EXCEPT !.run.recorder = "inactive", !.run.spc = "ended",
                           !.run.webmBlob = "video/webm",
                           !.run.blobParts = c.run.chunks])

\* recorder.onerror: cleanup, reject(error).  Nothing else is stopped.
RecorderOnError(c) ==
  RejectCapture([c EXCEPT !.run.recorder = "inactive", !.run.recorderFailed = TRUE,
                          !.run.spc = IF @ = "stopping" THEN "ended" ELSE @])

\* --------------------------------------------------------- transcodeVideo

\* What ffmpeg's 'progress' event can carry: progress in thousandths of the
\* ratio and time in microseconds, each possibly missing (<<>>).
RawSamples ==
  { [progress |-> <<-500>>, time |-> <<>>],
    [progress |-> <<200>>, time |-> <<>>],
    [progress |-> <<600>>, time |-> <<>>],
    [progress |-> <<1500>>, time |-> <<12000000>>],
    [progress |-> <<1500>>, time |-> <<2000000>>],
    [progress |-> <<1001>>, time |-> <<>>],
    [progress |-> <<>>, time |-> <<>>],
    [progress |-> <<>>, time |-> <<-7>>],
    [progress |-> <<-1>>, time |-> <<0>>],
    [progress |-> <<4>>, time |-> <<>>],
    [progress |-> <<995>>, time |-> <<>>],
    [progress |-> <<1000>>, time |-> <<>>] }

\* Faulty variant: the upper end of the ratio is not checked and the result
\* is not clamped.
TranscodeProgressUnclamped(raw) ==
  IF raw.progress # <<>> /\ raw.progress[1] >= 0
  THEN MathRound(Frac(raw.progress[1] * 100, 1000))
  ELSE IF raw.time # <<>> /\ raw.time[1] > 0
  THEN raw.time[1] \div 100000
  ELSE 0

\* The value the 'progress' listener of transcodeVideo forwards.
TranscodeProgress(raw) ==
  LET progressPercent ==
        IF raw.progress # <<>> /\ raw.progress[1] >= 0 /\ raw.progress[1] <= 1000
        THEN MathRound(Frac(raw.progress[1] * 100, 1000))
        ELSE IF raw.time # <<>> /\ raw.time[1] > 0
        THEN Min(99, raw.time[1] \div 100000)
        ELSE 0
  IN Max(0, Min(100, progressPercent))

\* Faulty variant: every transcoded blob is declared as mp4.
TranscodeMimeTypeMp4Only(targetFormat) == "video/mp4"

\* mimeType of the blob transcodeVideo returns.
TranscodeMimeType(targetFormat) ==
  IF targetFormat = "mp4" THEN "video/mp4" ELSE "video/quicktime"

\* transcodeVideo resolves: handleExport goes on to downloadBlob(finalBlob).
TranscodeResolved(c) ==
  CallDownloadBlob([c EXCEPT !.run.finalBlob = TranscodeMimeType(c.run.format)])

\* The onProgress callback handleExport gives to transcodeVideo.
TranscodeOnProgress(c, raw) ==
  [c EXCEPT !.exportProgress =
     Num(65 + MathRound(Frac(TranscodeProgress(raw) * 35, 100)))]

\* Faulty variant: the final setExportProgress(100) is left out.
AfterDownloadNoHundred(c) ==
  [c EXCEPT !.run.success = TRUE, !.run.hpc = "final", !.toast = "Video exported"]

\* handleExport after downloadBlob: progress 100, the success notice, the timer.
AfterDownload(c) ==
  [c EXCEPT !.exportProgress = Num(100), !.run.success = TRUE, !.run.hpc = "final",
            !.toast = "Video exported"]

\* ----------------------------------------------------------------- actions

StoreUnchanged == UNCHANGED <<timelineBlocks, clips, fsSupported, playback, player, edits>>

\* A run whose capture or transcode has not settled yet.
InFlight(run) == run.hpc \in {"capture", "tc_loading", "tc_poll", "tc_exec"}

\* handleExport from setIsExporting(true) to the first await of the capture.
BeginRun(r) ==
  LET run0 == [IdleRun EXCEPT !.hpc = "capture", !.format = format,
                              !.blocks = SortByOrder(timelineBlocks),
                              !.allClips = clips, !.promise = "pending"]
      c0 == [Ctx(r) EXCEPT !.isExporting = TRUE, !.exportProgress = Num(0),
                           !.toast = IF format # "webm" /\ ~isLoaded
                                     THEN "First-time setup" ELSE @,
                           !.run = run0]
  IN /\ Commit(r, StartCapture(c0))
     /\ nruns' = r

\* A click on Export (the button is shown while isExporting is false).
ExportClick ==
  /\ ~isExporting
  /\ picker = "closed"
  /\ IF ~HasClips
     THEN /\ toast' = "No clips to export"
          /\ UNCHANGED <<format, isExporting, exportProgress, picker, isLoading,
                         isLoaded, ffmpegInstance, runs, nruns>>
     ELSE /\ nruns < MaxRuns
          /\ IF fsSupported
             THEN /\ picker' = "open"
                  /\ UNCHANGED <<format, isExporting, exportProgress, isLoading,
                                 isLoaded, ffmpegInstance, runs, nruns, toast>>
             ELSE /\ BeginRun(nruns + 1)
                  /\ UNCHANGED <<format, picker>>
  /\ StoreUnchanged

\* getSaveFileHandle resolves with the handle.
PickerResolved ==
  /\ picker = "open"
  /\ picker' = "closed"
  /\ BeginRun(nruns + 1)
  /\ UNCHANGED format
  /\ StoreUnchanged

\* Faulty variant: the panel was put in the exporting state before the
\* picker was asked, and a rejection leaves it there.
PickerRejectedWhileExporting ==
  /\ picker = "open"
  /\ picker' = "closed"
  /\ toast' \in {"Export cancelled", "Failed to select save location"}
  /\ isExporting' = TRUE
  /\ exportProgress' = Num(0)
  /\ UNCHANGED <<format, isLoading, isLoaded, ffmpegInstance, runs, nruns>>
  /\ StoreUnchanged

\* getSaveFileHandle rejects (the user closed the picker, or it failed).
PickerRejected ==
  /\ picker = "open"
  /\ picker' = "closed"
  /\ toast' \in {"Export cancelled", "Failed to select save location"}
  /\ UNCHANGED <<format, isExporting, exportProgress, isLoading, isLoaded, ffmpegInstance, runs, nruns>>
  /\ StoreUnchanged

\* The format select (disabled while isExporting).
SetFormat(f) ==
  /\ ~isExporting
  /\ picker = "closed"
  /\ nruns < MaxRuns
  /\ f # format
  /\ format' = f
  /\ UNCHANGED <<isExporting, exportProgress, picker, isLoading, isLoaded, ffmpegInstance, runs, nruns,
                 toast>>
  /\ StoreUnchanged

\* handleCancel (the button is shown while isExporting is true).
HandleCancel ==
  /\ isExporting
  /\ isExporting' = FALSE
  /\ exportProgress' = Num(0)
  /\ runs' = [r \in Runs |->
                IF InFlight(runs[r]) THEN [runs[r] EXCEPT !.cancelled = TRUE]
                ELSE runs[r]]
  /\ toast' = "Export cancelled"
  /\ UNCHANGED <<format, picker, isLoading, isLoaded, ffmpegInstance, nruns>>
  /\ StoreUnchanged

Step(r, c) ==
  /\ Commit(r, c)
  /\ UNCHANGED <<format, picker, nruns>>
  /\ StoreUnchanged

FirstMetadata(r) ==
  /\ runs[r].spc = "meta0"
  /\ Step(r, OnFirstMetadata(Ctx(r)))

LoadedMetadata(r) ==
  /\ runs[r].spc = "load"
  /\ Step(r, OnLoadedMetadata(Ctx(r)))

Seeked(r) ==
  /\ runs[r].spc = "seek"
  /\ Step(r, OnSeeked(Ctx(r)))

PlayStarted(r) ==
  /\ runs[r].spc = "play"
  /\ Step(r, OnPlayStarted(Ctx(r)))

AnimationFrame(r) ==
  /\ runs[r].spc = "loop"
  /\ \E d \in 1..MaxAdvance : Step(r, CaptureLoop(Ctx(r), d))

\* The video element fires 'error' while the run waits for loadedmetadata or
\* seeked.  No listener is registered for it: the awaited event never comes.
MediaError(r) ==
  /\ runs[r].spc \in {"meta0", "load", "seek"}
  /\ Step(r, [Ctx(r) EXCEPT !.run.spc = "stalled", !.run.mediaFailed = TRUE])

RecorderStopped(r) ==
  /\ runs[r].spc = "stopping"
  /\ runs[r].recorder = "recording"
  /\ Step(r, RecorderOnStop(Ctx(r)))

RecorderError(r) ==
  /\ runs[r].recorder = "recording"
  /\ Step(r, RecorderOnError(Ctx(r)))

\* ffmpegInstance.load resolves in loadFFmpeg.
FFmpegLoaded(r) ==
  /\ runs[r].hpc = "tc_loading"
  /\ Step(r, [Ctx(r) EXCEPT !.isLoaded = TRUE, !.isLoading = FALSE,
                            !.run.ffmpeg = ffmpegInstance, !.run.hpc = "tc_exec"])

\* ffmpegInstance.load rejects: loadFFmpeg throws, and so does transcodeVideo.
FFmpegLoadFailed(r) ==
  /\ runs[r].hpc = "tc_loading"
  /\ Step(r, HandleExportCatch([Ctx(r) EXCEPT !.isLoading = FALSE,
                                              !.run.transcodeFailed = TRUE]))

\* The 100 ms interval of a loadFFmpeg call that waits for the load in flight.
FFmpegPoll(r) ==
  /\ runs[r].hpc = "tc_poll"
  /\ isLoaded /\ ffmpegInstance # <<>>
  /\ Step(r, [Ctx(r) EXCEPT !.run.ffmpeg = ffmpegInstance, !.run.hpc = "tc_exec"])

FFmpegProgress(r) ==
  /\ runs[r].hpc = "tc_exec"
  /\ \E raw \in RawSamples : Step(r, TranscodeOnProgress(Ctx(r), raw))

TranscodeDone(r) ==
  /\ runs[r].hpc = "tc_exec"
  /\ Step(r, TranscodeResolved(Ctx(r)))

TranscodeFailed(r) ==
  /\ runs[r].hpc = "tc_exec"
  /\ Step(r, HandleExportCatch([Ctx(r) EXCEPT !.run.transcodeFailed = TRUE]))

DownloadDone(r) ==
  /\ runs[r].hpc = "download"
  /\ Step(r, AfterDownload(Ctx(r)))

\* Writing to the file handle throws.
DownloadFailed(r) ==
  /\ runs[r].hpc = "download"
  /\ fsSupported
  /\ Step(r, HandleExportCatch(Ctx(r)))

\* The setTimeout of handleExport, 1000 ms after the success.
ResetTimer(r) ==
  /\ runs[r].hpc = "final"
  /\ Step(r, [Ctx(r) EXCEPT !.isExporting = FALSE, !.exportProgress = Num(0),
                            !.run.hpc = "closed"])

Next ==
  \/ ExportClick
  \/ PickerResolved
  \/ PickerRejected
  \/ \E f \in Formats : SetFormat(f)
  \/ HandleCancel
  \/ \E r \in Runs :
       \/ FirstMetadata(r)
       \/ LoadedMetadata(r)
       \/ Seeked(r)
       \/ PlayStarted(r)
       \/ AnimationFrame(r)
       \/ MediaError(r)
       \/ RecorderStopped(r)
       \/ RecorderError(r)
       \/ FFmpegLoaded(r)
       \/ FFmpegLoadFailed(r)
       \/ FFmpegPoll(r)
       \/ FFmpegProgress(r)
       \/ TranscodeDone(r)
       \/ TranscodeFailed(r)
       \/ DownloadDone(r)
       \/ DownloadFailed(r)
       \/ ResetTimer(r)

Spec == Init /\ [][Next]_vars

\* ------------------------------------------------- the loader of FFmpeg

\* Exports of a timeline of one block where the picker is not supported:
\* what the runs do with loadFFmpeg.
LoaderInit ==
  /\ Init
  /\ ~fsSupported
  /\ timelineBlocks = << Block("x", "a", 0, 0, 2) >>

LoaderNext ==
  \/ ExportClick
  \/ \E f \in Formats : SetFormat(f)
  \/ HandleCancel
  \/ \E r \in Runs :
       \/ FirstMetadata(r)
       \/ LoadedMetadata(r)
       \/ Seeked(r)
       \/ PlayStarted(r)
       \/ AnimationFrame(r)
       \/ RecorderStopped(r)
       \/ FFmpegLoaded(r)
       \/ FFmpegLoadFailed(r)
       \/ FFmpegPoll(r)
       \/ TranscodeDone(r)
       \/ TranscodeFailed(r)
       \/ DownloadDone(r)
       \/ ResetTimer(r)

LoaderSpec == LoaderInit /\ [][LoaderNext]_vars

\* ffmpegInstance.load settles, one way or the other, and the interval of a
\* waiting call keeps firing.
LoaderFairness ==
  \A r \in Runs :
    /\ WF_vars(FFmpegLoaded(r) \/ FFmpegLoadFailed(r))
    /\ WF_vars(FFmpegPoll(r))

FairLoaderSpec == LoaderSpec /\ LoaderFairness

\* ------------------------------------------- the capture stage, with a clock

\* The clips of the timed specification: clip "c" is a long one.
TimedClipSet ==
  [ c \in {"a", "b", "c"} |->
      IF c = "c" THEN [duration |-> 20, volume |-> 100, muted |-> FALSE]
                 ELSE ClipSet[c] ]

\* Its timelines: one block; a short block before a long one; and a block
\* whose startTime and endTime lie past the end of its 3-tick media (the I
\* and O keys store the timeline position as a position in the media).
TimedTimelines ==
  { << Block("x", "a", 0, 0, 2) >>,
    << Block("x", "a", 0, 0, 1), Block("z", "c", 1, 0, 20) >>,
    << Block("y", "b", 0, 4, 5), Block("x", "a", 1, 0, 2) >> }

TimedInit ==
  /\ timelineBlocks \in TimedTimelines
  /\ clips = TimedClipSet
  /\ fsSupported = FALSE
  /\ format = "webm"
  /\ isExporting = FALSE
  /\ exportProgress = Num(0)
  /\ picker = "closed"
  /\ isLoading = FALSE
  /\ isLoaded = FALSE
  /\ ffmpegInstance = <<>>
  /\ runs = [r \in Runs |-> IdleRun]
  /\ nruns = 0
  /\ toast = "none"
  /\ playback = [InitialPlayback EXCEPT !.totalDuration = SumDuration(timelineBlocks)]
  /\ player = IdlePlayer
  /\ edits = 0

\* t ticks pass; the recorder, once started, records until it is stopped.
Elapse(c, t) ==
  [c EXCEPT !.run.recorded = IF c.run.recorder = "recording" THEN @ + t ELSE @]

\* captureLoop and the time to the next animation frame: the video plays on
\* at its natural rate, so that what video.currentTime gains is what passes.
TimedCaptureLoop(c, d) ==
  LET c1 == CaptureLoop(c, d)
  IN IF c1.run.currentBlockIndex = c.run.currentBlockIndex THEN Elapse(c1, d) ELSE c1

TimedAnimationFrame(r) ==
  /\ runs[r].spc = "loop"
  /\ \E d \in 1..MaxAdvance : Step(r, TimedCaptureLoop(Ctx(r), d))

\* A tick passes while processNextBlock awaits loadedmetadata, seeked or the
\* promise of video.play().
AwaitTick(r) ==
  /\ runs[r].spc \in {"load", "seek", "play"}
  /\ runs[r].delay < MaxDelay
  /\ Step(r, Elapse([Ctx(r) EXCEPT !.run.delay = @ + 1], 1))

TimedNext ==
  \/ ExportClick
  \/ \E r \in Runs :
       \/ FirstMetadata(r)
       \/ LoadedMetadata(r)
       \/ Seeked(r)
       \/ PlayStarted(r)
       \/ TimedAnimationFrame(r)
       \/ AwaitTick(r)
       \/ RecorderStopped(r)
       \/ DownloadDone(r)
       \/ ResetTimer(r)

TimedSpec == TimedInit /\ [][TimedNext]_vars

\* Fair delivery of the media events and of the animation frames of every
\* run: an event that stays due is delivered.
TimedFairness ==
  \A r \in Runs :
    /\ WF_vars(FirstMetadata(r))
    /\ WF_vars(LoadedMetadata(r))
    /\ WF_vars(Seeked(r))
    /\ WF_vars(PlayStarted(r))
    /\ WF_vars(TimedAnimationFrame(r))
    /\ WF_vars(RecorderStopped(r))

FairTimedSpec == TimedSpec /\ TimedFairness

\* ------------------------------------------------ the recorder and its chunks

\* Chunks one recorder emits before it is stopped.
MaxChunks == 3

\* The timeslice of recorder.start(100) has passed: a dataavailable event,
\* with data or (nothing was encoded since the last one) without.
DataAvailable(r) ==
  /\ runs[r].recorder = "recording"
  /\ runs[r].spc # "stopping"
  /\ Len(runs[r].emitted) < MaxChunks
  /\ \E size \in 0..1 : Step(r, OnDataAvailable(Ctx(r), size))

\* recorder.stop() takes effect: the data gathered since the last chunk is
\* emitted in a last dataavailable event, then the stop event follows.
RecorderFinished(r) ==
  /\ runs[r].spc = "stopping"
  /\ runs[r].recorder = "recording"
  /\ \E size \in 0..1 : Step(r, RecorderOnStop(OnDataAvailable(Ctx(r), size)))

RecorderNext ==
  \/ ExportClick
  \/ \E r \in Runs :
       \/ FirstMetadata(r)
       \/ LoadedMetadata(r)
       \/ Seeked(r)
       \/ PlayStarted(r)
       \/ AnimationFrame(r)
       \/ DataAvailable(r)
       \/ RecorderFinished(r)
       \/ DownloadDone(r)
       \/ ResetTimer(r)

\* The capture stage with the chunks of the recorder.
RecorderSpec == TimedInit /\ [][RecorderNext]_vars

\* ------------------------------------------------- the store and the editor

\* In the editor and in the preview player one tick is 0.05 s.

\* Editing operations one behaviour may make.
MaxEdits == 4

\* Largest position, in ticks of the clip, a trim handle is dragged to.
MaxMouse == 4

\* The 0.1 s a trim keeps between startTime and endTime.
MinTrim == 2

\* The files the user can upload, by name; the clip takes the name as its id.
FileNames == {"a", "b", "c"}

\* metadata.duration of a file.
FileDuration(f) == IF f = "a" THEN 2 ELSE 3

\* The id of the block handleFiles makes for the clip of a file.
BlockIdOf(f) == IF f = "a" THEN "x" ELSE IF f = "b" THEN "y" ELSE "z"

\* The store, as its actions read and write it.
Store == [timelineBlocks |-> timelineBlocks, clips |-> clips, playback |-> playback]

\* Array.filter over the blocks; keep is the set of ids that pass.
RECURSIVE FilterBlocks(_, _)
FilterBlocks(s, keep) ==
  IF s = <<>> THEN <<>>
  ELSE (IF Head(s).id \in keep THEN <<Head(s)>> ELSE <<>>) \o FilterBlocks(Tail(s), keep)

\* getTotalDuration of the store.
GetTotalDuration(st) == SumDuration(st.timelineBlocks)

AddClip(st, id, clip) ==
  [st EXCEPT !.clips = [k \in DOMAIN st.clips \cup {id} |->
                          IF k = id THEN clip ELSE st.clips[k]]]

\* Faulty variant: the blocks of the removed clip stay on the timeline.
RemoveClipKeepsBlocks(st, clipId) ==
  [st EXCEPT !.clips = [k \in DOMAIN st.clips \ {clipId} |-> st.clips[k]]]

\* removeClip: the clip and its blocks go; playback is not touched.
RemoveClip(st, clipId) ==
  [st EXCEPT !.clips = [k \in DOMAIN st.clips \ {clipId} |-> st.clips[k]],
             !.timelineBlocks =
                FilterBlocks(@, {st.timelineBlocks[i].id : i \in
                   {j \in 1..Len(st.timelineBlocks) :
                      st.timelineBlocks[j].clipId # clipId}})]

\* updateClip with new audio settings.
UpdateClip(st, clipId, volume, muted) ==
  [st EXCEPT !.clips = [k \in DOMAIN st.clips |->
                          IF k = clipId
                          THEN [st.clips[k] EXCEPT !.volume = volume, !.muted = muted]
                          ELSE st.clips[k]]]

\* The state the four timeline actions return: the new blocks and the total
\* duration computed from them.
WithTotalDuration(st, newBlocks) ==
  [st EXCEPT !.timelineBlocks = newBlocks,
             !.playback.totalDuration = SumDuration(newBlocks)]

AddBlockToTimeline(st, block) ==
  WithTotalDuration(st, Append(st.timelineBlocks, block))

RemoveBlockFromTimeline(st, blockId) ==
  WithTotalDuration(st,
    FilterBlocks(st.timelineBlocks,
                 {st.timelineBlocks[i].id : i \in 1..Len(st.timelineBlocks)} \ {blockId}))

UpdateBlockOrder(st, blocks) == WithTotalDuration(st, blocks)

\* updateBlock: { ...b, ...updates } for the block of that id.
UpdateBlock(st, blockId, updates) ==
  WithTotalDuration(st,
    [i \in 1..Len(st.timelineBlocks) |->
       LET b == st.timelineBlocks[i]
       IN IF b.id = blockId
          THEN [k \in DOMAIN b |-> IF k \in DOMAIN updates THEN updates[k] ELSE b[k]]
          ELSE b])

SetCurrentTime(st, time) == [st EXCEPT !.playback.currentTime = time]

SetActiveBlock(st, blockId) == [st EXCEPT !.playback.activeBlockId = blockId]

SetPlaying(st, isPlaying) == [st EXCEPT !.playback.isPlaying = isPlaying]

\* The index of the block of that id, 0 if there is none.
FindIndex(s, id) ==
  IF \E i \in 1..Len(s) : s[i].id = id
  THEN CHOOSE i \in 1..Len(s) : s[i].id = id
  ELSE 0

\* arrayMove of @dnd-kit/sortable: the element at from is taken out and put
\* in again at to.
ArrayMove(s, from, to) ==
  LET rest == SubSeq(s, 1, from - 1) \o SubSeq(s, from + 1, Len(s))
  IN SubSeq(rest, 1, to - 1) \o <<s[from]>> \o SubSeq(rest, to, Len(rest))

\* The time before the block at index i of the sorted blocks.
TimeBefore(sorted, i) == SumDuration(SubSeq(sorted, 1, i - 1))

\* The render of Timeline after the store changed: while there are clips the
\* component is mounted and sorts the array of the store in place.
TimelineRender(st) ==
  IF DOMAIN st.clips # {} THEN [st EXCEPT !.timelineBlocks = SortByOrder(@)] ELSE st

\* handleFiles for one valid file: the clip, then its block at the end.
HandleFiles(st, f) ==
  LET st1 == AddClip(st, f, [duration |-> FileDuration(f), volume |-> 100,
                             muted |-> FALSE])
      order == Len(st1.timelineBlocks)
  IN AddBlockToTimeline(st1, Block(BlockIdOf(f), f, order, 0, FileDuration(f)))

\* handleDragEnd: the block active was dropped on the block over.
HandleDragEnd(st, active, over) ==
  LET oldIndex == FindIndex(st.timelineBlocks, active)
      newIndex == FindIndex(st.timelineBlocks, over)
      moved == ArrayMove(st.timelineBlocks, oldIndex, newIndex)
  IN UpdateBlockOrder(st, [i \in 1..Len(moved) |-> [moved[i] EXCEPT !.order = i - 1]])

\* Faulty variant: the start handle is stopped at the end of the block only.
TrimStartNoGap(block, newStartTime) ==
  Max(0, Min(newStartTime, block.endTime))

\* handleMouseMove with the start handle: tempTrimTime.start.
TrimStart(block, newStartTime) ==
  Max(0, Min(newStartTime, block.endTime - MinTrim))

\* handleMouseMove with the end handle: tempTrimTime.end.
TrimEnd(block, clipDuration, newEndTime) ==
  Max(block.startTime + MinTrim, Min(newEndTime, clipDuration))

\* A trim gesture on a handle of the block: mouse down, the last mouse
\* position (as a time of the clip), mouse up.
HandleMouseUp(st, blockId, handle, time) ==
  LET block == st.timelineBlocks[FindIndex(st.timelineBlocks, blockId)]
      start == IF handle = "start" THEN TrimStart(block, time) ELSE block.startTime
      end == IF handle = "end"
             THEN TrimEnd(block, st.clips[block.clipId].duration, time)
             ELSE block.endTime
  IN UpdateBlock(st, blockId,
                 [startTime |-> start, endTime |-> end, duration |-> end - start])

\* handleBlockClick: the block becomes the active one and the timeline
\* position the time before it.
HandleBlockClick(st, blockId) ==
  LET sortedBlocks == SortByOrder(st.timelineBlocks)
      blockIndex == FindIndex(sortedBlocks, blockId)
  IN SetCurrentTime(SetActiveBlock(st, blockId), TimeBefore(sortedBlocks, blockIndex))

\* handleKeyPress, Delete and Backspace.
KeyDelete(st) ==
  IF st.playback.activeBlockId # "none"
  THEN RemoveBlockFromTimeline(st, st.playback.activeBlockId)
  ELSE st

\* Faulty variant: the I key moves startTime and leaves duration as it was.
KeyIKeepsDuration(st) ==
  LET i == FindIndex(st.timelineBlocks, st.playback.activeBlockId)
      block == st.timelineBlocks[i]
      newStartTime == st.playback.currentTime
      newDuration == block.endTime - newStartTime
  IN IF st.playback.activeBlockId # "none" /\ DOMAIN st.clips # {} /\ i # 0
        /\ newDuration > MinTrim
     THEN UpdateBlock(st, block.id, [startTime |-> newStartTime])
     ELSE st

\* handleKeyPress, KeyI: the in-point is the position on the timeline.
KeyI(st) ==
  LET i == FindIndex(st.timelineBlocks, st.playback.activeBlockId)
      block == st.timelineBlocks[i]
      newStartTime == st.playback.currentTime
      newDuration == block.endTime - newStartTime
  IN IF st.playback.activeBlockId # "none" /\ DOMAIN st.clips # {} /\ i # 0
        /\ newDuration > MinTrim
     THEN UpdateBlock(st, block.id, [startTime |-> newStartTime, duration |-> newDuration])
     ELSE st

\* handleKeyPress, KeyO: the out-point is the position on the timeline.
KeyO(st) ==
  LET i == FindIndex(st.timelineBlocks, st.playback.activeBlockId)
      block == st.timelineBlocks[i]
      newEndTime == st.playback.currentTime
      newDuration == newEndTime - block.startTime
  IN IF st.playback.activeBlockId # "none" /\ DOMAIN st.clips # {} /\ i # 0
        /\ newDuration > MinTrim
     THEN UpdateBlock(st, block.id, [endTime |-> newEndTime, duration |-> newDuration])
     ELSE st

\* ------------------------------------------------------ the editor's actions

BlockIds(s) == {s[i].id : i \in 1..Len(s)}

\* An editing operation took the store to st; Timeline renders.
Edit(st) ==
  /\ edits < MaxEdits
  /\ edits' = edits + 1
  /\ LET st1 == TimelineRender(st)
     IN /\ timelineBlocks' = st1.timelineBlocks
        /\ clips' = st1.clips
        /\ playback' = st1.playback
  /\ UNCHANGED <<fsSupported, format, isExporting, exportProgress, picker, isLoading,
                 isLoaded, ffmpegInstance, runs, nruns, toast, player>>

\* A file is dropped or chosen (each file once).
Upload ==
  \E f \in FileNames \ DOMAIN clips :
    /\ BlockIdOf(f) \notin BlockIds(timelineBlocks)
    /\ Edit(HandleFiles(Store, f))

\* The remove button of a block.
RemoveClick == \E id \in BlockIds(timelineBlocks) : Edit(RemoveBlockFromTimeline(Store, id))

DeleteKey ==
  /\ playback.activeBlockId # "none"
  /\ Edit(KeyDelete(Store))

DragEnd ==
  \E active, over \in BlockIds(timelineBlocks) :
    /\ active # over
    /\ Edit(HandleDragEnd(Store, active, over))

TrimDrag ==
  \E id \in BlockIds(timelineBlocks), handle \in {"start", "end"}, time \in -1..MaxMouse :
    Edit(HandleMouseUp(Store, id, handle, time))

BlockClick == \E id \in BlockIds(timelineBlocks) : Edit(HandleBlockClick(Store, id))

InKey ==
  /\ KeyI(Store) # Store
  /\ Edit(KeyI(Store))

OutKey ==
  /\ KeyO(Store) # Store
  /\ Edit(KeyO(Store))

\* The volume slider and the mute button of a block (AudioControls).
AudioChange ==
  \E id \in DOMAIN clips :
    \/ \E v \in {50, 100} : /\ v # clips[id].volume
                            /\ ~clips[id].muted
                            /\ Edit(UpdateClip(Store, id, v, clips[id].muted))
    \/ Edit(UpdateClip(Store, id, clips[id].volume, ~clips[id].muted))

\* removeClip of the store is called for a clip.
ClipRemoval == \E id \in DOMAIN clips : Edit(RemoveClip(Store, id))

EditorInit ==
  /\ timelineBlocks = <<>>
  /\ clips = <<>>
  /\ fsSupported = FALSE
  /\ format = "webm"
  /\ isExporting = FALSE
  /\ exportProgress = Num(0)
  /\ picker = "closed"
  /\ isLoading = FALSE
  /\ isLoaded = FALSE
  /\ ffmpegInstance = <<>>
  /\ runs = [r \in Runs |-> IdleRun]
  /\ nruns = 0
  /\ toast = "none"
  /\ playback = InitialPlayback
  /\ player = IdlePlayer
  /\ edits = 0

EditorNext ==
  \/ Upload
  \/ RemoveClick
  \/ DeleteKey
  \/ DragEnd
  \/ TrimDrag
  \/ BlockClick
  \/ InKey
  \/ OutKey
  \/ AudioChange
  \/ ClipRemoval
  \/ ExportClick
  \/ \E r \in Runs :
       \/ FirstMetadata(r)
       \/ LoadedMetadata(r)
       \/ Seeked(r)
       \/ PlayStarted(r)
       \/ AnimationFrame(r)
       \/ RecorderStopped(r)
       \/ DownloadDone(r)
       \/ ResetTimer(r)

\* The editor and the export panel side by side.
EditorSpec == EditorInit /\ [][EditorNext]_vars

\* -------------------------------------------------------- the preview player

\* The 0.05 s of handleTimeUpdate, in ticks.
EndTolerance == 1

\* Renders React makes in a row before it gives up on effects that set state.
MaxRenders == 6

\* step="0.1" of the seek bar, in ticks.
SeekStep == 2

\* Timers of handleSeek that are pending at one time.
MaxTimers == 1

\* What the player component reads and writes: the store and its own state.
\* What the last timeupdate observed is forgotten when the next handler runs.
View == [timelineBlocks |-> timelineBlocks, clips |-> clips, playback |-> playback,
         p |-> [player EXCEPT !.tick = <<>>]]

\* hasVideo: the video element and the controls are rendered.
HasVideo == Len(timelineBlocks) > 0 /\ DOMAIN clips # {}

\* The dependencies of the effect that loads the current block.
LoadDeps(v) ==
  << v.p.currentBlockIndex, Len(v.timelineBlocks), Cardinality(DOMAIN v.clips),
     v.playback.isPlaying, v.playback.activeBlockId >>

\* What makes the component render again.
RenderState(v) ==
  << v.timelineBlocks, v.clips, v.playback, v.p.currentBlockIndex,
     v.p.isTransitioning, v.p.volume >>

\* The current block has a clip: sortedBlocks[currentBlockIndex] and clips.find.
HasCurrentClip(v) ==
  /\ Len(v.timelineBlocks) > 0
  /\ DOMAIN v.clips # {}
  /\ v.p.currentBlockIndex < Len(v.timelineBlocks)
  /\ SortByOrder(v.timelineBlocks)[v.p.currentBlockIndex + 1].clipId \in DOMAIN v.clips

CurrentBlockOf(v) == SortByOrder(v.timelineBlocks)[v.p.currentBlockIndex + 1]

\* videoRef.current.currentTime = time: the element keeps the position within
\* its media.
SetElementTime(v, time) ==
  [v EXCEPT !.p.position = IF v.p.src \in DOMAIN v.clips
                           THEN Min(time, v.clips[v.p.src].duration) ELSE @]

\* finalVolume = Math.min(masterVolume * clipVolume, 1).
FinalVolume(master, clipVolume) ==
  FracMin(Frac(master * clipVolume, 100 * 100), Num(1))

\* The effect that applies the audio settings of the current block.
ApplyAudioSettings(v) ==
  IF ~HasCurrentClip(v) THEN v
  ELSE LET clip == v.clips[CurrentBlockOf(v).clipId]
       IN [v EXCEPT !.p.elVolume = FinalVolume(v.p.volume, clip.volume),
                    !.p.muted = clip.muted]

\* video.play(): the element is no longer paused; one whose playback has
\* ended starts over.
ElementPlay(v) ==
  [v EXCEPT !.p.paused = FALSE,
            !.p.position = IF v.p.src \in DOMAIN v.clips /\ @ >= v.clips[v.p.src].duration
                           THEN 0 ELSE @]

\* The effect that loads the current block, run for the render r on the
\* state v: the cleanup of its last run, src, currentTime, the audio
\* settings, setActiveBlock, the canplay listener.  Setting src pauses the
\* element and rejects a pending promise of play(), whose catch runs.
LoadCurrentBlock(r, v) ==
  IF ~HasCurrentClip(r) THEN [v EXCEPT !.p.listener = <<>>]
  ELSE LET currentBlock == CurrentBlockOf(r)
           clip == r.clips[currentBlock.clipId]
           v1 == [v EXCEPT
                    !.p.src = currentBlock.clipId,
                    !.p.position = Min(currentBlock.startTime, clip.duration),
                    !.p.paused = TRUE,
                    !.p.canplayDue = TRUE,
                    !.p.playPending = FALSE,
                    !.p.elVolume = FinalVolume(r.p.volume, clip.volume),
                    !.p.muted = clip.muted,
                    !.p.listener = << [wasPlaying |-> r.playback.isPlaying,
                                       index |-> r.p.currentBlockIndex,
                                       blocks |-> SortByOrder(r.timelineBlocks),
                                       currentTime |-> r.playback.currentTime] >>,
                    !.playback.activeBlockId = currentBlock.id]
       IN IF v.p.playPending
          THEN [SetPlaying(v1, FALSE) EXCEPT !.p.isTransitioning = FALSE]
          ELSE v1

\* The effect that follows the active block of the store, for the render r.
FollowActiveBlock(r, v) ==
  LET blockIndex == FindIndex(SortByOrder(r.timelineBlocks), r.playback.activeBlockId)
  IN IF \/ r.playback.activeBlockId = "none"
        \/ Len(r.timelineBlocks) = 0
        \/ r.p.isTransitioning
        \/ blockIndex = 0
        \/ blockIndex - 1 = r.p.currentBlockIndex
     THEN v
     ELSE [v EXCEPT !.p.currentBlockIndex = blockIndex - 1]

\* The effects of one render; deps are the dependencies of the render before.
Effects(deps, r) ==
  LET v1 == ApplyAudioSettings(r)
      v2 == IF LoadDeps(r) # deps THEN LoadCurrentBlock(r, v1) ELSE v1
  IN FollowActiveBlock(r, v2)

\* Render after render until the effects set no more state.
RECURSIVE Settle(_, _, _)
Settle(deps, r, n) ==
  LET v == Effects(deps, r)
  IN IF RenderState(v) = RenderState(r) THEN v
     ELSE IF n = 0 THEN [v EXCEPT !.p.renderLoop = TRUE]
     ELSE Settle(LoadDeps(r), v, n - 1)

\* handleCanPlay, with what its effect run has captured.
HandleCanPlay(v) ==
  LET cl == Head(v.p.listener)
      currentBlock == cl.blocks[cl.index + 1]
      timeBeforeCurrentBlock == TimeBefore(cl.blocks, cl.index + 1)
      within == /\ cl.currentTime >= timeBeforeCurrentBlock
                /\ cl.currentTime < timeBeforeCurrentBlock + currentBlock.duration
      videoTime == currentBlock.startTime + (cl.currentTime - timeBeforeCurrentBlock)
      v1 == [(IF within THEN SetElementTime(v, videoTime) ELSE v) EXCEPT
               !.p.listener = <<>>,
               !.p.isTransitioning = FALSE]
  IN IF cl.wasPlaying \/ v.p.shouldAutoPlay
     THEN [ElementPlay(v1) EXCEPT !.p.shouldAutoPlay = FALSE, !.p.playPending = TRUE]
     ELSE SetPlaying(v1, FALSE)

\* handlePlayPause.
HandlePlayPause(v) ==
  IF v.playback.isPlaying
  THEN SetPlaying([v EXCEPT !.p.paused = TRUE], FALSE)
  ELSE SetPlaying(ElementPlay(v), TRUE)

\* Faulty variant: at the end of a block the element is left playing.
HandleTimeUpdateNoPause(v) ==
  LET sortedBlocks == SortByOrder(v.timelineBlocks)
      i == v.p.currentBlockIndex + 1
      currentBlock == sortedBlocks[i]
      videoTime == v.p.position
  IN IF Len(sortedBlocks) = 0 \/ v.p.isTransitioning \/ i > Len(sortedBlocks) THEN v
     ELSE IF videoTime >= currentBlock.endTime - EndTolerance
     THEN LET v1 == [v EXCEPT !.p.shouldAutoPlay = TRUE, !.p.isTransitioning = TRUE]
          IN IF i < Len(sortedBlocks)
             THEN [v1 EXCEPT !.p.currentBlockIndex = @ + 1]
             ELSE SetCurrentTime([v1 EXCEPT !.p.currentBlockIndex = 0], 0)
     ELSE IF videoTime < currentBlock.startTime
     THEN SetElementTime(v, currentBlock.startTime)
     ELSE SetCurrentTime(v, TimeBefore(sortedBlocks, i) + (videoTime - currentBlock.startTime))

\* handleTimeUpdate.
HandleTimeUpdate(v) ==
  LET sortedBlocks == SortByOrder(v.timelineBlocks)
      i == v.p.currentBlockIndex + 1
      currentBlock == sortedBlocks[i]
      videoTime == v.p.position
  IN IF Len(sortedBlocks) = 0 \/ v.p.isTransitioning \/ i > Len(sortedBlocks) THEN v
     ELSE IF videoTime >= currentBlock.endTime - EndTolerance
     THEN LET v1 == SetPlaying([v EXCEPT !.p.paused = TRUE,
                                         !.p.shouldAutoPlay = TRUE,
                                         !.p.isTransitioning = TRUE], FALSE)
          IN IF i < Len(sortedBlocks)
             THEN [v1 EXCEPT !.p.currentBlockIndex = @ + 1]
             ELSE SetCurrentTime([v1 EXCEPT !.p.currentBlockIndex = 0], 0)
     ELSE IF videoTime < currentBlock.startTime
     THEN SetElementTime(v, currentBlock.startTime)
     ELSE SetCurrentTime(v, TimeBefore(sortedBlocks, i) + (videoTime - currentBlock.startTime))

\* The for loop of handleSeek from block i on: the first block the target
\* time falls into, 0 if it falls into none.
RECURSIVE SeekBlock(_, _, _)
SeekBlock(sortedBlocks, targetCumulativeTime, i) ==
  IF i > Len(sortedBlocks) THEN 0
  ELSE IF targetCumulativeTime < TimeBefore(sortedBlocks, i) + sortedBlocks[i].duration
  THEN i
  ELSE SeekBlock(sortedBlocks, targetCumulativeTime, i + 1)

\* The callbacks still waiting when handleSeek is called again with another
\* target are marked: a later seek has overtaken them (nothing in the program
\* reads the mark).
Superseded(timers, target) ==
  [k \in DOMAIN timers |->
     [timers[k] EXCEPT !.overtaken = @ \/ timers[k].target # target]]

\* handleSeek; the callback of its setTimeout waits in timers.
HandleSeek(v, targetCumulativeTime) ==
  LET sortedBlocks == SortByOrder(v.timelineBlocks)
      i == SeekBlock(sortedBlocks, targetCumulativeTime, 1)
      block == sortedBlocks[i]
      videoTime == block.startTime + (targetCumulativeTime - TimeBefore(sortedBlocks, i))
      v0 == [v EXCEPT !.p.timers = Superseded(@, targetCumulativeTime)]
  IN IF Len(sortedBlocks) = 0 THEN v
     ELSE IF i = 0 THEN SetCurrentTime(v0, SumDuration(sortedBlocks))
     ELSE IF i - 1 # v.p.currentBlockIndex
     THEN [v0 EXCEPT !.p.isTransitioning = TRUE,
                     !.p.currentBlockIndex = i - 1,
                     !.p.timers = Append(@, [videoTime |-> videoTime,
                                             target |-> targetCumulativeTime,
                                             overtaken |-> FALSE])]
     ELSE SetCurrentTime(SetElementTime(v0, videoTime), targetCumulativeTime)

\* The callback handleSeek gave to setTimeout.
SeekTimeout(v) ==
  LET t == Head(v.p.timers)
      v1 == [v EXCEPT !.p.timers = Tail(@)]
  IN IF Len(v.timelineBlocks) > 0 /\ DOMAIN v.clips # {}
     THEN SetCurrentTime(SetElementTime(v1, t.videoTime), t.target)
     ELSE v1

\* handleEnded as the render r defined it, run on the state v: the index it
\* compares is the one of r, setCurrentBlockIndex(prev => prev + 1) counts on
\* from the index of v.
HandleEnded(r, v) ==
  IF r.p.currentBlockIndex < Len(r.timelineBlocks) - 1
  THEN [v EXCEPT !.p.isTransitioning = TRUE, !.p.currentBlockIndex = @ + 1]
  ELSE SetCurrentTime([v EXCEPT !.p.shouldAutoPlay = TRUE, !.p.isTransitioning = TRUE,
                                !.p.currentBlockIndex = 0], 0)

\* handleVolumeChange of the player: the master volume.
HandleVolumeChange(v, newVolume) ==
  [v EXCEPT !.p.volume = newVolume, !.p.elVolume = Frac(newVolume, 100)]

\* ------------------------------------------------------ the player's actions

\* A handler took the player and the store to v; the component renders and
\* its effects run until they settle.
Rendered(v) ==
  LET w == Settle(LoadDeps(View), v, MaxRenders)
  IN /\ timelineBlocks' = w.timelineBlocks
     /\ clips' = w.clips
     /\ playback' = w.playback
     /\ player' = w.p
     /\ UNCHANGED <<fsSupported, format, isExporting, exportProgress, picker, isLoading,
                    isLoaded, ffmpegInstance, runs, nruns, toast, edits>>

\* The element has loaded enough of its src: canplay.
CanPlay ==
  /\ player.canplayDue
  /\ Rendered(IF player.listener # <<>>
              THEN HandleCanPlay([View EXCEPT !.p.canplayDue = FALSE])
              ELSE [View EXCEPT !.p.canplayDue = FALSE])

\* The promise of play() in handleCanPlay resolves: setPlaying(true).
PlayResolved ==
  /\ player.playPending
  /\ ~player.canplayDue
  /\ Rendered(SetPlaying([View EXCEPT !.p.playPending = FALSE], TRUE))

\* The media of the element is at its end.
AtMediaEnd(v) ==
  /\ v.p.src \in DOMAIN v.clips
  /\ v.p.position >= v.clips[v.p.src].duration

\* The position the element shows lies within the tolerance of the end of
\* the current block.
ObservesEnd(v) ==
  /\ HasCurrentClip(v)
  /\ v.p.position >= CurrentBlockOf(v).endTime - EndTolerance

\* A timeupdate event, d ticks of playback after the last one (0: the
\* position did not move; the element fires the event after a seek, a pause
\* and from time to time).  When playback reaches the end of the media the
\* element pauses itself and the ended event is due in the same task; with
\* ended the event reaches handleEnded, otherwise the reload that
\* handleTimeUpdate caused has removed it.
TimeUpdate(d, ended) ==
  /\ player.src \in DOMAIN clips
  /\ d > 0 => /\ ~player.paused
              /\ ~player.canplayDue
              /\ ~player.playPending
              /\ ~AtMediaEnd(View)
  /\ LET v0 == [View EXCEPT !.p.position = Min(@ + d, clips[player.src].duration)]
         v1 == [v0 EXCEPT !.p.tick = << [atEnd |-> ObservesEnd(v0),
                                         transitioning |-> player.isTransitioning] >>]
         reached == d > 0 /\ AtMediaEnd(v1)
         v2 == HandleTimeUpdate(v1)
         v3 == IF reached THEN [v2 EXCEPT !.p.paused = TRUE] ELSE v2
     IN /\ ended => reached
        /\ (reached /\ LoadDeps(v2) = LoadDeps(v1)) => ended
        /\ Rendered(IF ended THEN HandleEnded(v1, v3) ELSE v3)

\* The seek bar is moved to a target time.
SeekTo(target) ==
  /\ HasVideo
  /\ Len(HandleSeek(View, target).p.timers) <= MaxTimers
  /\ target % SeekStep = 0
  /\ target # playback.currentTime
  /\ Rendered(HandleSeek(View, target))

Seek == \E target \in 0..SumDuration(timelineBlocks) : SeekTo(target)

\* 100 ms after a seek into another block.
SeekTimer ==
  /\ player.timers # <<>>
  /\ Rendered(SeekTimeout(View))

\* The play button of the player.
PlayPauseClick ==
  /\ HasVideo
  /\ Rendered(HandlePlayPause(View))

\* The space key: setPlaying(!playback.isPlaying).
SpaceKey ==
  /\ DOMAIN clips # {}
  /\ Rendered(SetPlaying(View, ~playback.isPlaying))

\* The volume slider of the player.
MasterVolumeChange ==
  /\ HasVideo
  /\ \E newVolume \in {0, 50, 100} :
       /\ newVolume # player.volume
       /\ Rendered(HandleVolumeChange(View, newVolume))

\* The volume slider and the mute button of the first clip (AudioControls).
ClipAudioChange ==
  /\ "a" \in DOMAIN clips
  /\ \/ \E volume \in {50, 100} :
          /\ volume # clips["a"].volume
          /\ ~clips["a"].muted
          /\ Rendered(UpdateClip(View, "a", volume, clips["a"].muted))
     \/ Rendered(UpdateClip(View, "a", clips["a"].volume, ~clips["a"].muted))

\* The clips as handleFiles has made them, of files twice as long as the
\* ones the editor is given.
UploadedClips ==
  [f \in FileNames |-> [duration |-> 2 * FileDuration(f), volume |-> 100, muted |-> FALSE]]

\* Timelines of the player: one whole clip; a block trimmed at its end before
\* a whole clip; three blocks, the second trimmed at its start.
PlayerTimelines ==
  { << Block("x", "a", 0, 0, 4) >>,
    << Block("y", "b", 0, 0, 3), Block("x", "a", 1, 0, 4) >>,
    << Block("x", "a", 0, 0, 4), Block("y", "b", 1, 2, 6), Block("z", "c", 2, 0, 6) >> }

\* The player is mounted on a timeline and its first effects have run.
PlayerInit ==
  /\ timelineBlocks \in PlayerTimelines
  /\ clips = UploadedClips
  /\ LET v == Settle(<<>>, [timelineBlocks |-> timelineBlocks, clips |-> clips,
                            playback |-> [InitialPlayback EXCEPT !.totalDuration =
                                            SumDuration(timelineBlocks)],
                            p |-> IdlePlayer], MaxRenders)
     IN /\ playback = v.playback
        /\ player = v.p
  /\ fsSupported = FALSE
  /\ format = "webm"
  /\ isExporting = FALSE
  /\ exportProgress = Num(0)
  /\ picker = "closed"
  /\ isLoading = FALSE
  /\ isLoaded = FALSE
  /\ ffmpegInstance = <<>>
  /\ runs = [r \in Runs |-> IdleRun]
  /\ nruns = 0
  /\ toast = "none"
  /\ edits = 0

\* Playback in the preview player.
PlayerNext ==
  \/ CanPlay
  \/ PlayResolved
  \/ \E d \in 0..MaxAdvance, ended \in BOOLEAN : TimeUpdate(d, ended)
  \/ Seek
  \/ SeekTimer
  \/ PlayPauseClick
  \/ SpaceKey

PlayerSpec == PlayerInit /\ [][PlayerNext]_vars

\* A click on a block of the timeline while the player is mounted.
BlockClicked ==
  /\ HasVideo
  /\ \E id \in BlockIds(timelineBlocks) :
       Rendered(TimelineRender(HandleBlockClick(View, id)))

\* The remove button of a block while the player is mounted; the last block
\* is left on the timeline, so that the video element stays mounted.
BlockRemoved ==
  /\ Len(timelineBlocks) > 1
  /\ \E id \in BlockIds(timelineBlocks) :
       Rendered(TimelineRender(RemoveBlockFromTimeline(View, id)))

\* A block is dragged onto another one while the player is mounted.
BlocksReordered ==
  \E active \in BlockIds(timelineBlocks), over \in BlockIds(timelineBlocks) :
    /\ active # over
    /\ Rendered(TimelineRender(HandleDragEnd(View, active, over)))

\* The player on the timeline of two blocks.
AudioInit == PlayerInit /\ Len(timelineBlocks) = 2

\* The volume controls, next to the blocks the player loads and one export run.
AudioNext ==
  \/ MasterVolumeChange
  \/ ClipAudioChange
  \/ CanPlay
  \/ Seek
  \/ SeekTimer
  \/ nruns = 0 /\ ExportClick
  \/ \E r \in Runs :
       \/ FirstMetadata(r)
       \/ LoadedMetadata(r)
       \/ Seeked(r)
       \/ PlayStarted(r)
       \/ AnimationFrame(r)
       \/ RecorderStopped(r)
       \/ DownloadDone(r)
       \/ ResetTimer(r)

AudioSpec == AudioInit /\ [][AudioNext]_vars

\* The component tree is still mounted: no render has failed to settle.
Mounted == ~player.renderLoop

\* The player while the timeline is clicked, reordered and shortened under
\* it, from the timeline of two blocks.  The seek bar is moved while no
\* callback of an earlier seek waits, and the play button is left alone:
\* playback starts when the player moves on from the end of a block.
PreviewNext ==
  \/ Mounted /\ CanPlay
  \/ Mounted /\ PlayResolved
  \/ Mounted /\ \E d \in 0..MaxAdvance, ended \in BOOLEAN : TimeUpdate(d, ended)
  \/ Mounted /\ player.timers = <<>> /\ Seek
  \/ Mounted /\ SeekTimer
  \/ Mounted /\ BlockClicked
  \/ Mounted /\ BlockRemoved
  \/ Mounted /\ BlocksReordered

PreviewSpec == AudioInit /\ [][PreviewNext]_vars

\* ------------------------------------------------------------------ claims

\* The capture loop of run r runs in this step: in the loop, every call
\* either moves video.currentTime on or moves to the next block.
CaptureLoopFires(r) ==
  /\ runs[r].spc = "loop"
  /\ \/ runs'[r].currentTime # runs[r].currentTime
     \/ runs'[r].currentBlockIndex # runs[r].currentBlockIndex

\* processNextBlock of run r sets video.src to the next block's clip in this step.
SegmentLoadStarts(r) == runs[r].spc \in {"loop", "meta0"} /\ runs'[r].spc = "load"

\* C1: single-flight: at no time are two processing runs (capture or
\* transcode) in flight.
C1_SingleFlight == Cardinality({r \in Runs : InFlight(runs[r])}) <= 1

\* C2: a run that was cancelled while in flight never hands its blob to
\* downloadBlob and never reports progress 100 and the success notice.
C2_CancelledNeverDelivers ==
  \A r \in Runs : runs[r].cancelled => ~runs[r].downloaded /\ ~runs[r].success

\* C3: once a run was cancelled, its capture loop does not fire again and it
\* loads no further segment.
C3_QuietAfterCancel ==
  [][\A r \in Runs :
       runs[r].cancelled => ~CaptureLoopFires(r) /\ ~SegmentLoadStarts(r)]_vars

\* C4: while the only run of a behaviour is under way (the panel stays in the
\* exporting state: no cancel, no failure), no step lowers exportProgress.
C4_ProgressMonotonic ==
  [][\A r \in Runs :
       ( /\ nruns = 1 /\ nruns' = 1
         /\ isExporting /\ isExporting'
         /\ runs[r].hpc \in {"capture", "tc_loading", "tc_poll", "tc_exec", "download"}
         /\ runs'[r].hpc \in {"capture", "tc_loading", "tc_poll", "tc_exec",
                              "download", "final"} )
       => FracLeq(exportProgress, exportProgress')]_vars

\* C5: a run whose media failed to load or seek has its promise rejected and
\* handleExport has left through its catch block.
C5_MediaFailureRejects ==
  \A r \in Runs :
    runs[r].mediaFailed => runs[r].promise = "rejected" /\ runs[r].hpc = "failed"

\* C6: when the transcode of a run fails, the step that fails it leaves
\* isExporting false and progress 0, and the run never hands a blob to
\* downloadBlob and never reports success.
C6_TranscodeFailureFailsExport ==
  [][\A r \in Runs :
       runs'[r].transcodeFailed =>
         /\ ~runs'[r].downloaded
         /\ ~runs'[r].success
         /\ runs'[r].hpc = "failed"
         /\ ~runs[r].transcodeFailed => ~isExporting' /\ exportProgress' = Num(0)]_vars

C6_Witness ==
  \E r \in Runs :
    /\ runs[r].transcodeFailed
    /\ runs[r].promise = "resolved"
    /\ runs[r].hpc = "failed"
    /\ ~isExporting
    /\ exportProgress = Num(0)

\* C7: once recorder.onerror has rejected a run, its capture loop does not
\* fire again and it loads no further segment.
C7_QuietAfterRecorderError ==
  [][\A r \in Runs :
       runs[r].recorderFailed => ~CaptureLoopFires(r) /\ ~SegmentLoadStarts(r)]_vars

\* C8: with an empty timeline no export ever starts: isExporting stays false,
\* the picker is not opened, and no run (no recorder, no load) exists.
C8_EmptyTimelineRejected ==
  Len(timelineBlocks) = 0 =>
    /\ ~isExporting
    /\ picker = "closed"
    /\ nruns = 0
    /\ \A r \in Runs : runs[r] = IdleRun

C8_Witness == timelineBlocks = <<>> /\ toast = "No clips to export" /\ ~isExporting

\* C9: a run calls createMediaElementSource at most once.
C9_BindAtMostOnce == \A r \in Runs : runs[r].binds <= 1

C9_Witness ==
  \E r \in Runs :
    /\ Len(runs[r].blocks) >= 2
    /\ runs[r].currentBlockIndex >= 1
    /\ runs[r].spc \in {"seek", "play", "loop"}
    /\ runs[r].binds = 1

\* C10: recorder.start is called at most once per run, it has been called
\* exactly once whenever a block of the run is loaded, seeked or played, and
\* the first value a run gives to onProgress is 5.
C10_RecorderStartedOnceFirst ==
  \A r \in Runs :
    /\ runs[r].starts <= 1
    /\ runs[r].spc \in {"load", "seek", "play", "loop", "stopping", "ended"}
         => runs[r].starts = 1 /\ runs[r].firstProgress = Num(5)
    /\ runs[r].firstProgress # NoProgress => runs[r].firstProgress = Num(5)

C10_Witness ==
  \E r \in Runs :
    /\ runs[r].spc = "loop"
    /\ runs[r].currentBlockIndex = 0
    /\ runs[r].starts = 1
    /\ runs[r].firstProgress = Num(5)
    /\ runs[r].processedDuration = 0

\* The sum of endTime - startTime over the blocks of a list.
RECURSIVE SumTrim(_)
SumTrim(s) ==
  IF s = <<>> THEN 0 ELSE (Head(s).endTime - Head(s).startTime) + SumTrim(Tail(s))

\* C11: recorder.stop is called at most once per run; when it has been called,
\* the boundary of every block of the list, the last one included, has been
\* detected; while a block is loading, seeking or playing it has not been called.
C11_StopOnceAfterLastBoundary ==
  \A r \in Runs :
    /\ runs[r].stops <= 1
    /\ runs[r].stops = 1 =>
         /\ runs[r].currentBlockIndex = Len(runs[r].blocks)
         /\ runs[r].processedDuration = SumTrim(runs[r].blocks)
         /\ runs[r].spc \in {"stopping", "ended"}
    /\ runs[r].spc \in {"meta0", "load", "seek", "play", "loop"} => runs[r].stops = 0

C11_Witness ==
  \E r \in Runs :
    /\ Len(runs[r].blocks) = 2
    /\ runs[r].stops = 1
    /\ runs[r].spc = "stopping"
    /\ runs[r].recorder = "recording"

\* C13: in the step that reaches the boundary of a block, the value given to
\* onProgress is min(95, P / T * 95), P the sum of endTime - startTime of the
\* blocks done so far and T the sum of the durations of all blocks; no value
\* given to onProgress exceeds 95.
C13_CaptureProgressFormula ==
  [][\A r \in Runs :
       /\ runs'[r].lastProgress # NoProgress => FracLeq(runs'[r].lastProgress, Num(95))
       /\ ( /\ runs[r].spc = "loop"
            /\ runs'[r].currentBlockIndex = runs[r].currentBlockIndex + 1 )
          => LET P == SumTrim(SubSeq(runs[r].blocks, 1, runs'[r].currentBlockIndex))
                 T == SumDuration(runs[r].blocks)
                 v == runs'[r].lastProgress
             IN IF P <= T THEN v[1] * T = 95 * P * v[2] ELSE v = Num(95)]_vars

C13_Witness ==
  \E r \in Runs :
    /\ Len(runs[r].blocks) = 2
    /\ runs[r].currentBlockIndex = 1
    /\ runs[r].spc = "load"
    /\ runs[r].lastProgress = Frac(95, 3)

\* Run r completes successfully in this step.
Completes(r) == runs'[r].success /\ ~runs[r].success

\* Progress 100 is reported in this step.
HundredReported == exportProgress' = Num(100) /\ exportProgress # Num(100)

\* downloadBlob is called at most once per run: it is called on the way into
\* "download", and a run that called it never returns to capture or transcode.
DownloadedOnce(r) ==
  /\ runs'[r].downloaded /\ ~runs[r].downloaded => runs'[r].hpc = "download"
  /\ runs[r].downloaded /\ runs'[r].downloaded =>
       runs'[r].hpc \in {"download", "final", "closed", "failed"}

\* C15 as stated: a run that completes successfully reports progress 100 in
\* the completing step, after its downloadBlob call (exactly one) has
\* finished, and 100 is reported in no other step.
C15_HundredOnlyAtCompletion ==
  [][/\ \A r \in Runs :
          /\ Completes(r) =>
               exportProgress' = Num(100) /\ runs[r].downloaded /\ runs[r].hpc = "download"
          /\ DownloadedOnce(r)
     /\ HundredReported => \E r \in Runs : Completes(r)]_vars

\* C15, amended: a run that completes successfully reports progress 100 in
\* the completing step, after its downloadBlob call (exactly one) has
\* finished; 100 is reported otherwise only by the transcode stage of an
\* mp4 or mov run, before downloadBlob is called.
C15_HundredAtCompletionOrTranscode ==
  [][/\ \A r \in Runs :
          /\ Completes(r) =>
               exportProgress' = Num(100) /\ runs[r].downloaded /\ runs[r].hpc = "download"
          /\ DownloadedOnce(r)
     /\ HundredReported =>
          \/ \E r \in Runs : Completes(r)
          \/ \E r \in Runs : /\ runs[r].format # "webm"
                               /\ runs[r].hpc = "tc_exec"
                               /\ ~runs[r].downloaded
                               /\ runs'[r] = runs[r]]_vars

C15_Witness ==
  \E r \in Runs :
    /\ runs[r].success
    /\ runs[r].hpc = "final"
    /\ runs[r].format = "mov"
    /\ runs[r].downloaded
    /\ exportProgress = Num(100)

\* C16: the blob given to downloadBlob is declared video/webm for a webm
\* run, video/mp4 for an mp4 run and video/quicktime for a mov run; the blob
\* the capture stage resolves with is declared video/webm for every format.
C16_BlobTypeMatchesFormat ==
  \A r \in Runs :
    /\ runs[r].promise = "resolved" => runs[r].webmBlob = "video/webm"
    /\ runs[r].downloaded =>
         /\ runs[r].format = "webm" => runs[r].finalBlob = "video/webm"
         /\ runs[r].format = "mp4" => runs[r].finalBlob = "video/mp4"
         /\ runs[r].format = "mov" => runs[r].finalBlob = "video/quicktime"

C16_Witness ==
  \E r \in Runs :
    /\ runs[r].format = "mov"
    /\ runs[r].downloaded
    /\ runs[r].webmBlob = "video/webm"
    /\ runs[r].finalBlob = "video/quicktime"

\* C20: whatever raw sample the 'progress' listener of transcodeVideo is
\* run with (ratio negative, above one or missing, time missing or not
\* positive), the value it forwards is a number from 0 to 100, and the panel
\* shows 65 plus 35 hundredths of it, rounded.
C20_ForwardedProgressInRange ==
  [][\A r \in Runs : \A raw \in RawSamples :
       ( /\ runs[r].hpc = "tc_exec"
         /\ Step(r, TranscodeOnProgress(Ctx(r), raw)) )
       => /\ TranscodeProgress(raw) \in 0..100
          /\ FracLeq(Num(65), exportProgress')
          /\ FracLeq(exportProgress', Num(100))]_vars

C20_Witness ==
  \E r \in Runs :
    /\ runs[r].hpc = "tc_exec"
    /\ runs[r].format = "mp4"
    /\ exportProgress = Num(100)
    /\ \E raw \in RawSamples :
         /\ raw.progress # <<>> /\ raw.progress[1] > 1000
         /\ TranscodeProgress(raw) = 99

\* The capture loop of run r draws a frame in this step: it does so exactly
\* when it does not move to the next block, and the video then plays on.
FrameDrawn(r) ==
  /\ runs[r].spc = "loop"
  /\ runs'[r].spc = "loop"
  /\ runs'[r].currentBlockIndex = runs[r].currentBlockIndex
  /\ runs'[r].currentTime # runs[r].currentTime

\* C18: a frame is drawn only while the recorder of the run is recording:
\* after recorder.start was called, before recorder.stop is called, and not
\* after the recorder has stopped by itself.
C18_FramesWithinRecording ==
  [][\A r \in Runs :
       FrameDrawn(r) =>
         /\ runs[r].starts = 1
         /\ runs[r].stops = 0
         /\ runs[r].recorder = "recording"]_vars

\* C19: when recorder.stop is called, the ticks the recorder has recorded
\* differ from the sum of endTime - startTime of the blocks by at most one
\* frame interval (MaxAdvance ticks) for each block.
C19_RecordedDurationMatchesTrims ==
  \A r \in Runs :
    runs[r].stops = 1 =>
      LET total == SumTrim(runs[r].blocks)
          tolerance == MaxAdvance * Len(runs[r].blocks)
      IN /\ runs[r].recorded <= total + tolerance
         /\ total <= runs[r].recorded + tolerance

\* The block run r is at.
CurrentBlock(r) == runs[r].blocks[runs[r].currentBlockIndex + 1]

\* C17: every frame drawn while a block is the current one shows that
\* block's clip at a position from startTime up to, not including, endTime.
C17_NoBoundaryBleed ==
  [][\A r \in Runs :
       FrameDrawn(r) =>
         /\ runs[r].src = CurrentBlock(r).clipId
         /\ CurrentBlock(r).startTime <= runs[r].currentTime
         /\ runs[r].currentTime < CurrentBlock(r).endTime]_vars

\* C12: the blocks of a run are visited one by one in list order: the index
\* moves on by one, and only where the capture loop detects the boundary of
\* the block that was loaded; a block that is being seeked or played is the
\* one that was loaded, and the seek has put the video at its startTime; the
\* recorder is stopped only when every block was visited.
C12_EveryBlockVisitedInOrder ==
  [][\A r \in Runs :
       runs[r].hpc # "idle" =>
         /\ runs'[r].currentBlockIndex \in
              {runs[r].currentBlockIndex, runs[r].currentBlockIndex + 1}
         /\ runs'[r].currentBlockIndex # runs[r].currentBlockIndex =>
              runs[r].spc = "loop"
         /\ runs[r].spc \in {"seek", "play", "loop"} =>
              runs[r].src = CurrentBlock(r).clipId
         /\ runs[r].spc = "seek" => runs[r].currentTime = CurrentBlock(r).startTime
         /\ runs[r].spc = "play" /\ runs'[r].spc = "loop" =>
              runs[r].currentTime = CurrentBlock(r).startTime
         /\ runs'[r].stops = 1 =>
              runs'[r].currentBlockIndex = Len(runs[r].blocks)]_vars

\* The capture stage of run r calls onProgress in this step.
CaptureReports(r) ==
  \/ runs[r].spc = "meta0" /\ runs'[r].firstProgress # NoProgress
  \/ runs[r].spc = "loop" /\ runs'[r].currentBlockIndex # runs[r].currentBlockIndex

\* C14: the value shown for a report of the capture stage lies in [5, 95]
\* on the webm path and below 65 on the mp4/mov path; the value shown for a
\* report of the transcode stage lies in [65, 100].
C14_ProgressBands ==
  [][\A r \in Runs :
       /\ CaptureReports(r) =>
            IF runs[r].format = "webm"
            THEN FracLeq(Num(5), exportProgress') /\ FracLeq(exportProgress', Num(95))
            ELSE FracLeq(Num(0), exportProgress') /\ ~FracLeq(Num(65), exportProgress')
       /\ \A raw \in RawSamples :
            ( /\ runs[r].hpc = "tc_exec"
              /\ Step(r, TranscodeOnProgress(Ctx(r), raw)) )
            => FracLeq(Num(65), exportProgress') /\ FracLeq(exportProgress', Num(100))]_vars

\* The order values of the blocks are exactly 0 .. n-1, each once.
OrdersDense(s) == {s[i].order : i \in 1..Len(s)} = 0..(Len(s) - 1)

\* C21: at the moment an export run begins, the order values of the timeline
\* blocks are unique and dense (exactly 0 .. n-1), whatever uploads, block
\* removals and drag reorders came before.
C21_OrdersDenseAtRunStart ==
  \A r \in Runs : runs[r].hpc # "idle" => OrdersDense(runs[r].blocks)

\* C22: after any sequence of trim operations (handle drags, the I key, the
\* O key) every block of the timeline has
\* 0 <= startTime < endTime <= duration of its clip.
C22_TrimsWithinClip ==
  \A i \in 1..Len(timelineBlocks) :
    LET b == timelineBlocks[i]
    IN /\ 0 <= b.startTime
       /\ b.startTime < b.endTime
       /\ b.clipId \in DOMAIN clips => b.endTime <= clips[b.clipId].duration

\* C23: after any sequence of store actions playback.totalDuration is the
\* sum of the durations of the blocks on the timeline, which is what
\* getTotalDuration() returns.
C23_TotalDurationInSync == playback.totalDuration = GetTotalDuration(Store)

\* The block, the trim and the audio settings run r works with are those of
\* the blocks and clips it took when it began.
ProcessesSnapshot(r) ==
  LET run == runs[r]
      block == run.blocks[run.currentBlockIndex + 1]
      clip == run.allClips[block.clipId]
  IN run.spc \in {"seek", "play", "loop"} =>
       /\ run.src = block.clipId
       /\ run.volume = Frac(clip.volume, 100)
       /\ run.muted = clip.muted
       /\ run.spc = "seek" => run.currentTime = Min(block.startTime, clip.duration)

\* C24: a run works on a frozen snapshot: no step, whether of the run or of
\* the editor (reorder, trim, removal of a block, volume, mute, removal of a
\* clip), changes the blocks and clips of a run that has begun, and the
\* segment, trim and audio settings it processes are those of the snapshot.
C24_RunUsesFrozenSnapshot ==
  [][\A r \in Runs :
       /\ runs[r].hpc # "idle" => /\ runs'[r].blocks = runs[r].blocks
                                  /\ runs'[r].allClips = runs[r].allClips
       /\ ProcessesSnapshot(r)']_vars

\* A run is capturing its second block after the store was changed under it:
\* the timeline and the clips of the store are no longer those of the run.
C24_Witness ==
  \E r \in Runs :
    /\ runs[r].spc = "loop"
    /\ runs[r].currentBlockIndex = 1
    /\ SortByOrder(timelineBlocks) # runs[r].blocks
    /\ clips # runs[r].allClips
    /\ runs[r].blocks[2].clipId \in DOMAIN clips
    /\ clips[runs[r].blocks[2].clipId].volume # runs[r].allClips[runs[r].blocks[2].clipId].volume

\* Run r has stopped its recorder and its promise has resolved with the blob.
Done(r) ==
  /\ runs[r].stops = 1
  /\ runs[r].recorder = "inactive"
  /\ runs[r].promise = "resolved"
  /\ runs[r].webmBlob = "video/webm"

\* C27: with a non-empty list whose clips all load, seek and play, and with
\* fair delivery of the media events and the animation frames, a run that
\* has begun eventually stops the recorder and resolves with the blob.
C27_RunReachesDone ==
  \A r \in Runs : (runs[r].hpc = "capture") ~> Done(r)

\* A run over two blocks is done.
C27_Witness ==
  \E r \in Runs : Done(r) /\ Len(runs[r].blocks) = 2 /\ runs[r].currentBlockIndex = 2

\* C28: from recorder.start until recorder.stop a render callback is pending
\* at every moment, also while the next block is loaded and seeked.
C28_RenderCallbackAlwaysPending ==
  \A r \in Runs :
    runs[r].recorder = "recording" /\ runs[r].stops = 0 => runs[r].spc = "loop"

\* The chunks of s that are not empty, by number, in order.
RECURSIVE NonEmptyChunks(_, _)
NonEmptyChunks(s, n) ==
  IF n = 0 THEN <<>>
  ELSE NonEmptyChunks(s, n - 1) \o (IF s[n] > 0 THEN <<n>> ELSE <<>>)

\* C29: the blob of a run is made of all the non-empty chunks its recorder
\* emitted between start and stop, in the order they arrived, each once.
C29_BlobIsAllChunksInOrder ==
  \A r \in Runs :
    runs[r].promise = "resolved" =>
      runs[r].blobParts = NonEmptyChunks(runs[r].emitted, Len(runs[r].emitted))

\* A blob was made of two chunks, with an empty chunk emitted before the last.
C29_Witness ==
  \E r \in Runs :
    /\ runs[r].promise = "resolved"
    /\ Len(runs[r].emitted) >= 3
    /\ Len(runs[r].blobParts) = 2
    /\ runs[r].emitted[Len(runs[r].emitted) - 1] = 0

\* The cumulative end of the current block on the timeline.
CurrentBlockEnd ==
  TimeBefore(SortByOrder(timelineBlocks), player.currentBlockIndex + 1)
    + CurrentBlockOf(View).duration

\* This step is a timeupdate that observed a position within the tolerance
\* of the end of the current block.
EndTick == player'.tick # <<>> /\ Head(player'.tick).atEnd

\* This step has paused the element and set isPlaying false, and it has
\* published no position of the tick: the timeline position is the one from
\* before, or 0 where the last block starts the loop.
PausedUnpublished ==
  /\ player'.paused
  /\ ~playback'.isPlaying
  /\ \/ playback'.currentTime = playback.currentTime
     \/ /\ player.currentBlockIndex = Len(timelineBlocks) - 1
        /\ playback'.currentTime = 0

\* C30, as stated: every timeupdate that observes a position of at least
\* endTime - 0.05 of the current block pauses the element, sets isPlaying
\* false and publishes no position.
C30_EveryEndTickPauses == [][EndTick => PausedUnpublished]_vars

\* C30: a timeupdate that observes a position of at least endTime - 0.05 of
\* the current block while no transition is under way pauses the element,
\* sets isPlaying false and publishes no position in that step; and the
\* position a timeupdate publishes never exceeds the cumulative end of the
\* block that was current.
C30_EndTickPausesOutsideTransition ==
  [][ /\ (EndTick /\ ~player.isTransitioning) => PausedUnpublished
      /\ (player'.tick # <<>> /\ playback'.currentTime # playback.currentTime)
           => \/ playback'.currentTime = 0
              \/ HasCurrentClip(View) /\ playback'.currentTime <= CurrentBlockEnd ]_vars

\* A timeupdate has found the end of the first of several blocks: the element
\* is paused, the player is in transition to the second block.
C30_Witness ==
  /\ player.tick # <<>>
  /\ Head(player.tick).atEnd
  /\ ~Head(player.tick).transitioning
  /\ player.isTransitioning
  /\ player.shouldAutoPlay
  /\ player.currentBlockIndex = 1
  /\ player.paused
  /\ ~playback.isPlaying
  /\ playback.currentTime > 0

\* clamp(masterGain * segmentGain, 0, 1), both gains in percent.
ClampedGain(master, segment) ==
  LET product == Frac(master * segment, 100 * 100)
  IN IF FracLeq(product, Num(0)) THEN Num(0)
     ELSE IF FracLeq(Num(1), product) THEN Num(1)
     ELSE product

\* loadedmetadata of the next segment of run r is handled in this step: the
\* segment becomes the active one of the run.
SegmentBecomesActive(r) == runs[r].spc = "load" /\ runs'[r].spc = "seek"

\* The element of run r has the volume and the muted flag the claim gives it,
\* with the master volume as it is when the segment becomes active.
RunGainApplied(r) ==
  LET block == runs'[r].blocks[runs'[r].currentBlockIndex + 1]
      clip == runs'[r].allClips[block.clipId]
  IN /\ runs'[r].volume = ClampedGain(player.volume, clip.volume)
     /\ runs'[r].muted = clip.muted

\* The element of the player has the volume and the muted flag of the block
\* it has loaded.
PlayerGainApplied ==
  (HasCurrentClip(View) /\ player.src = CurrentBlockOf(View).clipId) =>
    LET clip == clips[CurrentBlockOf(View).clipId]
    IN /\ player.elVolume = ClampedGain(player.volume, clip.volume)
       /\ player.muted = clip.muted

\* The volume of an element lies within [0, 1].
VolumeInRange(volume) == FracLeq(Num(0), volume) /\ FracLeq(volume, Num(1))

\* C25: whenever a segment becomes the active one, in an export run and in
\* the preview player, the volume of the element is
\* clamp(masterGain * segmentGain, 0, 1) and its muted flag the one of the
\* segment, before the segment plays; the volume is always within [0, 1].
C25_GainIsMasterTimesSegment ==
  [][ /\ \A r \in Runs : SegmentBecomesActive(r) => RunGainApplied(r)
      /\ PlayerGainApplied'
      /\ VolumeInRange(player'.elVolume)
      /\ \A r \in Runs : VolumeInRange(runs'[r].volume) ]_vars

TrimLength(block) == block.endTime - block.startTime

PickerFails == picker = "open" /\ picker' = "closed" /\ nruns' = nruns

\* C32: where the File System Access API is there, a run is started only by
\* the step in which the picker resolves, so the picker is asked before any
\* processing; when the picker is cancelled or fails, no run is started:
\* isExporting stays false, exportProgress is unchanged and no run changes
\* (no recorder is created).
C32_PickerBeforeProcessing ==
  [][ /\ (fsSupported /\ nruns' # nruns) => picker = "open" /\ picker' = "closed"
      /\ PickerFails => /\ ~isExporting
                        /\ ~isExporting'
                        /\ exportProgress' = exportProgress
                        /\ runs' = runs ]_vars

\* The picker has failed on the first click on Export: no run was started.
C32_Witness ==
  /\ fsSupported
  /\ HasClips
  /\ picker = "closed"
  /\ toast = "Failed to select save location"
  /\ nruns = 0
  /\ ~isExporting
  /\ \A r \in Runs : runs[r].recorder = "none"

\* C33: whenever the timeline is not empty, currentBlockIndex of the preview
\* player is the index of one of its blocks.
C33_CurrentBlockIndexValid ==
  Len(timelineBlocks) > 0 =>
    player.currentBlockIndex >= 0 /\ player.currentBlockIndex < Len(timelineBlocks)

BlocksContaining(sortedBlocks, t) ==
  { i \in 1..Len(sortedBlocks) :
      /\ TimeBefore(sortedBlocks, i) <= t
      /\ t < TimeBefore(sortedBlocks, i) + sortedBlocks[i].duration }

\* What a seek to t is to leave behind: the player on the one block that
\* contains t, the element at the source position of t in that block, a
\* position of the block, and t as the published timeline position.
SeekDone(t) ==
  LET sortedBlocks == SortByOrder(timelineBlocks')
      held == BlocksContaining(sortedBlocks, t)
  IN /\ Cardinality(held) = 1
     /\ \A i \in held :
          /\ player'.currentBlockIndex = i - 1
          /\ player'.position = sortedBlocks[i].startTime + (t - TimeBefore(sortedBlocks, i))
          /\ player'.position >= sortedBlocks[i].startTime
          /\ player'.position < sortedBlocks[i].endTime
     /\ playback'.currentTime = t

\* C35: a seek to a time t with 0 <= t < totalDuration puts the player on the
\* unique block whose cumulative interval contains t, the element on
\* startTime + (t - the durations before the block), inside the block, and
\* leaves playback.currentTime = t: at once when t is in the current block,
\* and otherwise when the delayed callback of the seek has run, which does
\* not replace the target of a seek handled after its own.
C35_SeekLandsOnTarget ==
  [][ /\ \A t \in 0..(SumDuration(timelineBlocks) - 1) :
           SeekTo(t) => \/ SeekDone(t)
                        \/ /\ player'.timers # <<>>
                           /\ player'.timers[Len(player'.timers)].target = t
      /\ SeekTimer => /\ ~Head(player.timers).overtaken
                      /\ SeekDone(Head(player.timers).target) ]_vars

\* C36: a call of loadFFmpeg that found another load in flight settles in the
\* end, whether that load succeeds or fails.
C36_WaitingCallSettles ==
  \A r \in Runs : (runs[r].hpc = "tc_poll") ~> (runs[r].hpc # "tc_poll")

\* The calls of loadFFmpeg whose own load is in flight.
Loading(rs) == {r \in Runs : rs[r].hpc = "tc_loading"}

\* Run r calls loadFFmpeg in this step.
CallsLoadFFmpeg(r) ==
  /\ runs[r].hpc = "capture"
  /\ runs'[r].hpc \in {"tc_loading", "tc_poll", "tc_exec"}

\* C37: at most one load of FFmpeg is in flight; once a load has succeeded no
\* call loads again and every call resolves with that one instance; a call
\* that finds no load in flight and none succeeded (the first call, or the
\* next one after a failed load) starts a load of a new instance.
C37_OneLoadOneInstance ==
  [][ /\ Cardinality(Loading(runs')) <= 1
      /\ isLoaded => /\ isLoaded'
                     /\ ffmpegInstance' = ffmpegInstance
                     /\ Loading(runs') = {}
      /\ \A r \in Runs :
           /\ runs'[r].ffmpeg # <<>> => isLoaded' /\ runs'[r].ffmpeg = ffmpegInstance'
           /\ (CallsLoadFFmpeg(r) /\ isLoaded) => runs'[r].hpc = "tc_exec"
           /\ (CallsLoadFFmpeg(r) /\ ~isLoading /\ ~isLoaded) =>
                 /\ runs'[r].hpc = "tc_loading"
                 /\ ffmpegInstance' # ffmpegInstance ]_vars

\* The load of the first call failed, the second call loaded a new instance
\* and resolved with it.
C37_Witness ==
  /\ runs[1].transcodeFailed /\ runs[1].ffmpeg = <<>>
  /\ runs[2].ffmpeg = <<2>> /\ ffmpegInstance = <<2>> /\ isLoaded /\ ~isLoading

\* The blocks whose clip is not among the clips.
Dangling(blocks, allClips) ==
  {i \in 1..Len(blocks) : blocks[i].clipId \notin DOMAIN allClips}

\* C38: every block of the timeline references a clip of the store, and so
\* does every block of the snapshot an export run works on: the run never
\* meets a block whose clip is not found.
C38_BlocksReferenceClips ==
  /\ Dangling(timelineBlocks, clips) = {}
  /\ \A r \in Runs : runs[r].hpc # "idle" => Dangling(runs[r].blocks, runs[r].allClips) = {}

\* Two uploads, the first clip removed with its block, and an export of what
\* is left that has captured its block.
C38_Witness ==
  /\ edits = 3
  /\ DOMAIN clips = {"b"}
  /\ Len(timelineBlocks) = 1 /\ timelineBlocks[1].clipId = "b" /\ timelineBlocks[1].order = 1
  /\ runs[1].blocks = timelineBlocks /\ runs[1].allClips = clips
  /\ runs[1].currentBlockIndex = 1

\* The blocks of a run whose boundary the capture loop has detected.
BlocksDone(run) == SubSeq(run.blocks, 1, run.currentBlockIndex)

\* C39: the duration of every block is endTime - startTime; so the segment
\* durations an export run has added up are the durations of the blocks it
\* has done, and at the last boundary they are the totalDuration its
\* progress is divided by.
C39_DurationIsTrimLength ==
  /\ \A i \in 1..Len(timelineBlocks) :
       timelineBlocks[i].duration = timelineBlocks[i].endTime - timelineBlocks[i].startTime
  /\ \A r \in Runs :
       /\ runs[r].spc \in {"load", "seek", "play", "loop", "stopping", "ended"}
            => runs[r].processedDuration = SumDuration(BlocksDone(runs[r]))
       /\ runs[r].stops = 1 => runs[r].processedDuration = SumDuration(runs[r].blocks)

\* A run has detected the last boundary of two blocks, the first of them
\* trimmed at its start.
C39_Witness ==
  \E r \in Runs :
    /\ runs[r].stops = 1
    /\ Len(runs[r].blocks) = 2
    /\ runs[r].blocks[1].startTime > 0
    /\ runs[r].blocks[1].duration < clips[runs[r].blocks[1].clipId].duration
    /\ runs[r].processedDuration = SumDuration(runs[r].blocks)

====
